---- MODULE Spec2Model ----
(***************************************************************************)
(* Event-driven notification pipeline of ScholarshipsRouting-2.0:          *)
(*   - the deadline scanner (services/tasks.py),                           *)
(*   - the notification materializer (services/application_svc.py),       *)
(*   - the Redis pub/sub broker (services/pubsub.py).                      *)
(* The pipeline part runs in several OS processes (Celery workers, the API *)
(* process) that share Firestore and Redis; each Firestore / Redis round   *)
(* trip is one step.  The broker part runs on one asyncio event loop; each *)
(* await is a point where another coroutine may run.                       *)
(***************************************************************************)
EXTENDS Integers, Sequences, FiniteSets, Bags, TLC

VARIABLES
    today,          \* datetime.utcnow().date(), as a day of November 2026
    apps,           \* users/{uid}/applications documents (read only)
    pc,             \* per process: position inside handle_deadline_approaching
    job,            \* per process: locals of the running handler
    scanned,        \* outcome of the latest process_single_application call
    notifications,  \* Firestore collection 'notifications': doc id -> document
    published,      \* bag of <<channel, message>> handed to redis PUBLISH
    writes,         \* history: doc id -> number of doc_ref.set() calls
    handled,        \* history: <<uid, app_id, type, date>> of finished handler runs
    up,             \* the Redis server is reachable
    failures,       \* number of transport outages so far
    stops,          \* number of stop_listening() calls so far
    running,        \* RedisPubSub._running
    conn,           \* RedisPubSub._async_client / _async_pubsub and the live subscription
    subscribers,    \* RedisPubSub._subscribers, in dict insertion order
    listenerTask,   \* RedisPubSub._listener_task: a task slot, 0 for None
    lst,            \* the tasks running RedisPubSub._listen
    call,           \* per callback: the subscribe / unsubscribe coroutine of its owner
    sd,             \* the coroutine running RedisPubSub.shutdown
    busSubscribers, \* EventManager._subscribers: event type -> list of handlers
    emits,          \* per emit call: its position, event type and handler tasks
    effects,        \* what the finished handlers did: <<emit call, task index>>
    task,           \* the Celery task check_application_deadlines: its loop and result
    firestore,      \* Firestore: reachable or not, and the outages so far
    emitResult,     \* per process: how its latest event_bus.emit call ended
    dropped,        \* history: the handler runs ended by a Firestore error
    active_connections, \* routes/realtime.py: the WebSockets being served
    n8n_response,   \* receive_to_n8n: its argument, the result of send_to_n8n
    chat_result,    \* receive_to_n8n: what it returned
    id_args,        \* generate_idempotent_id: the arguments of two calls
    ids,            \* generate_idempotent_id: what the two calls returned
    marking         \* mark_notification_read: the latest call, its position and result

pipeVars == <<today, apps, pc, job, scanned, notifications, published, writes, handled,
              task, firestore, emitResult, dropped>>

brokerVars == <<up, failures, stops, running, conn, subscribers, listenerTask, lst, call, sd>>

busVars == <<busSubscribers, emits, effects>>

gwVars == <<active_connections>>

fnVars == <<n8n_response, chat_result, id_args, ids, marking>>

vars == <<pipeVars, brokerVars, busVars, gwVars, fnVars>>

-----------------------------------------------------------------------------
(* Bounds of the model *)

\* number of midnights that pass during a run
MaxDayTicks == 1
\* target dates range over FirstDay - 2 .. FirstDay + MaxAhead
MaxAhead == 8

\* transport outages during a run
MaxFailures == 2
\* transport outages during a run of repeated reconnects
MaxOutages == 8
\* integer values of days_left range over -2 .. MaxDaysLeft
MaxDaysLeft == 9
\* stop_listening() calls during a run
MaxStops == 1
\* tasks running _listen that can be alive at once
MaxListeners == 2

\* emit calls, and subscribe calls after the import of application_svc
MaxEmits == 2

MaxRegistrations == 1

\* outages of Firestore
MaxStoreFailures == 1

(* Program constants *)

DAYS_BEFORE_DEADLINE == 3

-----------------------------------------------------------------------------
(* Values *)

None == "None"

Procs == {"worker", "api"}

FirstDay == 10 + 0

Days == FirstDay .. (FirstDay + MaxDayTicks)

TargetDays == (FirstDay - 2) .. (FirstDay + MaxAhead)

TwoDigits(n) == IF n < 10 THEN "0" \o ToString(n) ELSE ToString(n)

\* date.isoformat()
IsoFormat(d) == "2026-11-" \o TwoDigits(d)

\* datetime.strftime("%B %d, %Y")
StrfTime(d) == "November " \o TwoDigits(d) \o ", 2026"

CalendarDays == 1 .. 30

TimeSuffixes == {"T00:00:00", "T23:59:59Z"}

\* the strings "%Y-%m-%d" of the month
DateStrs == [d \in CalendarDays |-> IsoFormat(d)]

\* the ISO date-time strings of the month
DateTimeStrs == [d \in CalendarDays |-> {IsoFormat(d) \o t : t \in TimeSuffixes}]

IsDateStr(s) == \E d \in CalendarDays : s = DateStrs[d]

\* the strings for which  'T' in s  holds and fromisoformat(s.replace('Z','')) succeeds
IsDateTimeStr(s) == \E d \in CalendarDays : s \in DateTimeStrs[d]

\* Parse date (handle ISO format) succeeds, i.e. raises no ValueError
ParseOk(s) == IsDateTimeStr(s) \/ IsDateStr(s)

\* the date it yields:  fromisoformat(s.replace('Z','')).date()  if 'T' in s,
\* strptime(s, "%Y-%m-%d").date() otherwise
ParseDate(s) ==
    IF IsDateTimeStr(s)
    THEN CHOOSE d \in CalendarDays : s \in DateTimeStrs[d]
    ELSE CHOOSE d \in CalendarDays : s = DateStrs[d]

-----------------------------------------------------------------------------
(* services/application_svc.py : configuration and helpers *)

\* NOTIFICATION_RULES.get(days) found nothing
NoConfig == <<>>

NOTIFICATION_RULES ==
    [d \in {0, 1, 3, 7} |->
        CASE d = 0 -> <<"DEADLINE_TODAY", "Deadline Today!",
                        <<"URGENT: Scholarship '", "' deadline is TODAY (", "). Submit now!">> >>
          [] d = 1 -> <<"DEADLINE_1_DAY", "1 Day Left",
                        <<"Hurry! Scholarship '", "' ends tomorrow (", ").">> >>
          [] d = 3 -> <<"DEADLINE_3_DAYS", "3 Days Left",
                        <<"Scholarship '", "' has 3 days left. Deadline: ", ".">> >>
          [] d = 7 -> <<"DEADLINE_7_DAYS", "1 Week Left",
                        <<"Scholarship '", "' has 1 week left. Ends on ", ".">> >> ]

get_notification_config_MissedFromZero(days) ==
    IF days <= 0
    THEN <<"DEADLINE_MISSED", "Deadline Missed",
           <<"The scholarship \"", "\" ended on ", ". Unfortunately, you missed the deadline.">> >>
    ELSE IF days \in DOMAIN NOTIFICATION_RULES THEN NOTIFICATION_RULES[days] ELSE NoConfig

get_notification_config(days) ==
    IF days < 0
    THEN <<"DEADLINE_MISSED", "Deadline Missed",
           <<"The scholarship \"", "\" ended on ", ". Unfortunately, you missed the deadline.">> >>
    ELSE IF days \in DOMAIN NOTIFICATION_RULES THEN NOTIFICATION_RULES[days] ELSE NoConfig

\* message_tpl.format(name=name, date=formatted_date)
FormatTpl(tpl, name, date) == tpl[1] \o name \o tpl[2] \o date \o tpl[3]

\* hashlib.md5(raw).hexdigest(): an injective tag on the hashed string
MD5(raw) == <<"md5", raw>>

generate_idempotent_id_NoType(uid, app_id, type_name, target_date) ==
    MD5(uid \o "_" \o app_id \o "_" \o target_date)

generate_idempotent_id(uid, app_id, type_name, target_date) ==
    MD5(uid \o "_" \o app_id \o "_" \o type_name \o "_" \o target_date)

\* one notification channel for all the users
channel_user_notifications_Shared(user_id) == "user.notifications"

\* services/pubsub.py : RedisPubSub.channel_user_notifications
channel_user_notifications(user_id) == "user." \o user_id \o ".notifications"

-----------------------------------------------------------------------------
(* services/event_manager.py : the handlers registered at import time *)

\* the event types some handler is registered for
SubscribedTypes == {"APPLICATION_CREATED", "DEADLINE_APPROACHING"}

EventSubscribers ==
    [t \in SubscribedTypes |->
        IF t = "APPLICATION_CREATED"
        THEN <<"handle_application_created">>
        ELSE <<"handle_deadline_approaching">>]

\* EventManager.emit: the handlers that get the payload
EmitTargets(event_type) ==
    IF event_type \in DOMAIN EventSubscribers THEN EventSubscribers[event_type] ELSE <<>>

-----------------------------------------------------------------------------
(* services/tasks.py : process_single_application *)

NoEvent == [type |-> None]

\* the event process_single_application emits for one application document
ProcessSingleApplication(uid, app_id, data, now) ==
    LET target_date_str == IF data.apply_date # None THEN data.apply_date ELSE data.deadline
        target_date == ParseDate(target_date_str)
        delta == target_date - now
    IN  IF target_date_str = None THEN [parsed |-> FALSE, delta |-> 0, event |-> NoEvent]
        ELSE IF ~ParseOk(target_date_str) THEN [parsed |-> FALSE, delta |-> 0, event |-> NoEvent]
        ELSE IF delta <= DAYS_BEFORE_DEADLINE
        THEN [parsed |-> TRUE, delta |-> delta,
              event |-> [type |-> "DEADLINE_APPROACHING",
                         payload |-> [user_id |-> uid,
                                      application_id |-> app_id,
                                      scholarship_name |-> data.scholarship_name,
                                      days_left |-> delta,
                                      deadline_date |-> IsoFormat(target_date)]]]
        ELSE [parsed |-> TRUE, delta |-> delta, event |-> NoEvent]

-----------------------------------------------------------------------------
(* services/application_svc.py : handle_deadline_approaching *)

NoJob == [id |-> None]

\* lines 68-99 with an idempotency key that also covers days_left
HandlerPrepare_KeyWithDaysLeft(payload) ==
    LET uid == payload.user_id
        days == payload.days_left
        name == payload.scholarship_name
        app_id == payload.application_id
        deadline_date_str == payload.deadline_date
        formatted_date == IF ParseOk(deadline_date_str)
                          THEN StrfTime(ParseDate(deadline_date_str))
                          ELSE deadline_date_str
        config == get_notification_config(days)
    IN  IF config = NoConfig THEN NoJob
        ELSE [id |-> generate_idempotent_id(uid, app_id, config[1],
                                            deadline_date_str \o "_" \o ToString(days)),
              uid |-> uid,
              notif_type |-> config[1],
              title |-> config[2],
              message |-> FormatTpl(config[3], name, formatted_date),
              payload |-> payload]

\* lines 68-99: everything before the first Firestore round trip
HandlerPrepare(payload) ==
    LET uid == payload.user_id
        days == payload.days_left
        name == payload.scholarship_name
        app_id == payload.application_id
        deadline_date_str == payload.deadline_date
        formatted_date == IF ParseOk(deadline_date_str)
                          THEN StrfTime(ParseDate(deadline_date_str))
                          ELSE deadline_date_str
        config == get_notification_config(days)
    IN  IF config = NoConfig THEN NoJob
        ELSE [id |-> generate_idempotent_id(uid, app_id, config[1], deadline_date_str),
              uid |-> uid,
              notif_type |-> config[1],
              title |-> config[2],
              message |-> FormatTpl(config[3], name, formatted_date),
              payload |-> payload]

JobTuple(j) == <<j.uid, j.payload.application_id, j.notif_type, j.payload.deadline_date>>

\* doc_ref.get().exists
DocExists_Never(store, id) == FALSE

DocExists(store, id) == id \in DOMAIN store

\* collection.add(data): a new document under an auto-generated id
DocSet_Add(store, id, data) ==
    LET auto == <<"auto", ToString(Cardinality(DOMAIN store))>>
    IN  [k \in DOMAIN store \cup {auto} |-> IF k = auto THEN data ELSE store[k]]

\* doc_ref.set(data): create or overwrite the document with that id
DocSet(store, id, data) == [k \in DOMAIN store \cup {id} |-> IF k = id THEN data ELSE store[k]]

\* firestore.SERVER_TIMESTAMP and datetime.utcnow().isoformat(): the instant is
\* not tracked, the document carries the sentinel and the message a clock reading
ServerTimestamp == "SERVER_TIMESTAMP"

UtcNowIso == "utcnow"

NotificationData(j) ==
    [userId |-> j.uid, type |-> j.notif_type, title |-> j.title, message |-> j.message,
     isRead |-> FALSE, createdAt |-> ServerTimestamp, link |-> "/app/applications",
     metadata |-> j.payload]

RealtimePayload(j) ==
    [userId |-> j.uid, type |-> j.notif_type, title |-> j.title, message |-> j.message,
     isRead |-> FALSE, createdAt |-> UtcNowIso, link |-> "/app/applications",
     metadata |-> j.payload, id |-> j.id]

Bump(f, k) == [x \in DOMAIN f \cup {k} |-> IF x = k THEN (IF k \in DOMAIN f THEN f[k] + 1 ELSE 1) ELSE f[x]]

-----------------------------------------------------------------------------
(* Initial state *)

AppIds == {"a1", "a2"}

OwnerOf(a) == IF a = "a1" THEN "u1" ELSE "u2"

\* deadline field of the second application: absent, malformed, or an ISO date-time
OtherDeadlines == {None, "30/11/2026", IsoFormat(FirstDay) \o "T23:59:59Z"}

\* check_application_deadlines has not run yet today
NoRun == [status |-> "idle", cause |-> None, cursor |-> 0, processed |-> <<>>,
          lastRun |-> FirstDay - 1]

PipeInit ==
    /\ today = FirstDay
    /\ \E t \in TargetDays, d2 \in OtherDeadlines :
          apps = [a \in AppIds |->
                    IF a = "a1"
                    THEN [user_id |-> OwnerOf(a), scholarship_name |-> "Fulbright",
                          apply_date |-> IsoFormat(t), deadline |-> IsoFormat(t + 1)]
                    ELSE [user_id |-> OwnerOf(a), scholarship_name |-> "Chevening",
                          apply_date |-> None, deadline |-> d2]]
    /\ pc = [p \in Procs |-> "idle"]
    /\ job = [p \in Procs |-> NoJob]
    /\ scanned = [app |-> None, parsed |-> FALSE, delta |-> 0, event |-> NoEvent]
    /\ notifications = <<>>
    /\ published = EmptyBag
    /\ writes = <<>>
    /\ handled = {}
    /\ task = NoRun
    /\ firestore = [up |-> TRUE, failures |-> 0]
    /\ emitResult = [p \in Procs |-> "none"]
    /\ dropped = {}

-----------------------------------------------------------------------------
(* services/pubsub.py : RedisPubSub, on one asyncio event loop *)

\* the callbacks the delivery gateway registers, and the channel of each
Callbacks == {"cb1", "cb2", "cb3"}

\* the user whose client a callback forwards to
UserOf(cb) == IF cb = "cb3" THEN "u2" ELSE "u1"

ChannelOf(cb) == channel_user_notifications(UserOf(cb))

Listeners == 1 .. MaxListeners

\* self._subscribers as a dict: a sequence of [channel, callbacks] in insertion order
HasChannel(reg, c) == \E i \in 1 .. Len(reg) : reg[i].channel = c

IndexOf(reg, c) == CHOOSE i \in 1 .. Len(reg) : reg[i].channel = c

CallbacksOf(reg, c) == IF HasChannel(reg, c) THEN reg[IndexOf(reg, c)].callbacks ELSE <<>>

\* self._subscribers[channel] = []
RegAdd(reg, c) == Append(reg, [channel |-> c, callbacks |-> <<>>])

\* self._subscribers[channel].append(callback)
RegAppend(reg, c, cb) == [reg EXCEPT ![IndexOf(reg, c)].callbacks = Append(@, cb)]

\* list.remove(x): drops the first occurrence, ValueError (ignored) when absent
ListRemove(l, x) ==
    IF \E i \in 1 .. Len(l) : l[i] = x
    THEN LET i == CHOOSE j \in 1 .. Len(l) : l[j] = x /\ \A k \in 1 .. (j - 1) : l[k] # x
         IN  SubSeq(l, 1, i - 1) \o SubSeq(l, i + 1, Len(l))
    ELSE l

RegRemove(reg, c, cb) == [reg EXCEPT ![IndexOf(reg, c)].callbacks = ListRemove(@, cb)]

\* del self._subscribers[channel]
RegDel(reg, c) == SubSeq(reg, 1, IndexOf(reg, c) - 1) \o SubSeq(reg, IndexOf(reg, c) + 1, Len(reg))

RegChannels(reg) == {reg[i].channel : i \in 1 .. Len(reg)}

SeqToSet(l) == {l[i] : i \in 1 .. Len(l)}

\* a task slot holding no live task
\* the absence of a payload
NoPayload == [none |-> TRUE]

\* json.dumps(message) (publish, line 66): the text that encodes the object
json_dumps(message) == [json |-> message]

\* message['data'] of a message that some other publisher sent: the encoding of a
\* document update (publish_document_update, lines 72-79) or a text that is not JSON
ForeignPayloads ==
    {json_dumps([collection |-> "scholarships", doc_id |-> "s1", action |-> "update",
                 timestamp |-> None]),
     [text |-> "PING"]}

\* json.loads raises JSONDecodeError on a text that encodes no object
IsJson(raw) == "json" \in DOMAIN raw

\* Deserialize message data (lines 175-179) without the except clause: the raw
\* text is dropped
Deserialize_NoFallback(raw) == IF IsJson(raw) THEN raw.json ELSE NoPayload

\* Deserialize message data (lines 175-179): json.loads, the raw data when it fails
Deserialize(raw) == IF IsJson(raw) THEN raw.json ELSE raw

\* a task slot holding no live task; backoff is the delay of the sleep before a
\* reconnect; during a dispatch cur, raw, data are the
\* channel, message['data'] and its deserialization, regd is
\* list(self._subscribers[channel]), invoked the calls  callback(data)  begun so
\* far and errs the callbacks that raised
NoTask == [pc |-> "none", attempts |-> 0, backoff |-> 0, ref |-> FALSE, todo |-> <<>>,
           cur |-> None, visited |-> {}, size |-> 0, raw |-> NoPayload,
           data |-> NoPayload, regd |-> <<>>, invoked |-> <<>>, errs |-> {}]

Active(l) == lst[l].pc \notin {"none", "done"}

FreeSlots == {l \in Listeners : ~Active(l) /\ l # listenerTask}

\* __init__ (lines 31-39); the transport starts healthy
BrokerInit ==
    /\ up = TRUE
    /\ failures = 0
    /\ stops = 0
    /\ running = FALSE
    /\ conn = [client |-> FALSE, psub |-> FALSE, closed |-> FALSE, tch |-> {}]
    /\ subscribers = <<>>
    /\ listenerTask = 0
    /\ lst = [l \in Listeners |-> NoTask]
    /\ call = [cb \in Callbacks |-> [pc |-> "new", ref |-> FALSE]]
    /\ sd = "idle"

-----------------------------------------------------------------------------
(* services/event_manager.py : EventManager *)

\* the event types emitted or subscribed anywhere in the services
EventTypes == {"APPLICATION_CREATED", "DEADLINE_APPROACHING", "APPLICATION_UPDATED"}

\* the handlers application_svc registers when it is imported
AppHandlers == {"handle_application_created", "handle_deadline_approaching"}

\* further handlers: a coroutine that awaits once, a coroutine that always
\* raises, a plain function
OtherHandlers == {"slow_handler", "failing_handler", "sync_handler"}

\* asyncio.iscoroutinefunction(handler)
IsCoroutineFunction(h) == h # "sync_handler"

\* how a handler can end: the application handlers end normally or with an
\* exception of Firestore
Outcomes(h) ==
    IF h = "failing_handler" THEN {"failed"}
    ELSE IF h \in AppHandlers THEN {"done", "failed"}
    ELSE {"done"}

Finished(tasks) == \A i \in DOMAIN tasks : tasks[i].st \in {"done", "failed"}

\* asyncio.gather(*tasks) without return_exceptions: the first exception is
\* raised into the awaiting coroutine
Gather_FirstException(tasks) ==
    IF \E i \in DOMAIN tasks : tasks[i].st = "failed" THEN "raised"
    ELSE IF Finished(tasks) THEN "returned" ELSE "gather"

\* a gather that is not awaited
Gather_NoWait(tasks) == "returned"

\* lines 46-47: await asyncio.gather(*tasks, return_exceptions=True), as the
\* position of emit given the state of the tasks
Gather(tasks) == IF Finished(tasks) THEN "returned" ELSE "gather"

Emits == 1 .. MaxEmits

NoEmit == [pc |-> "idle", type |-> None, handlers |-> <<>>, tasks |-> <<>>]

\* EventManager.__init__, then the two subscribe calls of application_svc
BusInit ==
    /\ busSubscribers = EventSubscribers
    /\ emits = [e \in Emits |-> NoEmit]
    /\ effects = {}

\* routes/realtime.py line 13: active_connections = set()
GatewayInit == active_connections = {}

\* the absence of a result
NoResult == [none |-> TRUE]

\* no call of receive_to_n8n or generate_idempotent_id is under study
\* no call of mark_notification_read so far
NoMarking == [pc |-> "idle", uid |-> None, id |-> <<>>, result |-> "none"]

NoCalls ==
    /\ n8n_response = <<>>
    /\ chat_result = NoResult
    /\ id_args = <<>>
    /\ ids = NoResult
    /\ marking = NoMarking

Init == PipeInit /\ BrokerInit /\ BusInit /\ GatewayInit /\ NoCalls

\* the pubsub object is closed or dropped: whatever is still awaiting an
\* operation on it now holds a dead object
StaleCalls(cs) == [cb \in Callbacks |-> [cs[cb] EXCEPT !.ref = FALSE]]

StaleTasks(ts) == [l \in Listeners |-> [ts[l] EXCEPT !.ref = FALSE]]

\* _start_listening (lines 141-148), given the value of _running it reads
StartListening(isRunning, ts) ==
    IF isRunning
    THEN /\ running' = isRunning
         /\ listenerTask' = listenerTask
         /\ lst' = ts
    ELSE /\ FreeSlots # {}
         /\ LET l == CHOOSE x \in FreeSlots : \A y \in FreeSlots : x <= y
            IN  /\ listenerTask' = l
                /\ lst' = [ts EXCEPT ![l] = [NoTask EXCEPT !.pc = "ready"]]
         /\ running' = TRUE

\* subscribe, lines 105-109: append the callback, start the listener if needed
SubFinish(cb, reg, c) ==
    IF ~HasChannel(reg, ChannelOf(cb))
    THEN \* KeyError
         /\ call' = [call EXCEPT ![cb] = [pc |-> "raised", ref |-> FALSE]]
         /\ subscribers' = reg
         /\ conn' = c
         /\ UNCHANGED <<running, listenerTask, lst>>
    ELSE /\ call' = [call EXCEPT ![cb] = [pc |-> "subscribed", ref |-> FALSE]]
         /\ subscribers' = RegAppend(reg, ChannelOf(cb), cb)
         /\ conn' = c
         /\ StartListening(running, lst)

\* subscribe after the ping of _ensure_async: lines 53-54 and 100-109
SubContinue(cb, c) ==
    IF ~c.psub /\ ~c.client
    THEN \* AttributeError: 'NoneType' object has no attribute 'pubsub'
         /\ call' = [call EXCEPT ![cb] = [pc |-> "raised", ref |-> FALSE]]
         /\ conn' = c
         /\ UNCHANGED <<subscribers, running, listenerTask, lst>>
    ELSE LET c1 == IF c.psub THEN c ELSE [c EXCEPT !.psub = TRUE, !.closed = FALSE, !.tch = {}]
         IN  IF ~HasChannel(subscribers, ChannelOf(cb))
             THEN /\ subscribers' = RegAdd(subscribers, ChannelOf(cb))
                  /\ call' = [call EXCEPT ![cb] = [pc |-> "sub_transport", ref |-> ~c1.closed]]
                  /\ conn' = c1
                  /\ UNCHANGED <<running, listenerTask, lst>>
             ELSE SubFinish(cb, subscribers, c1)

\* subscribe(channel, callback) is called: up to its first await
SubCall(cb) ==
    /\ call[cb].pc = "new"
    /\ IF ~conn.client
       THEN \* create the client, await ping()
            /\ conn' = [conn EXCEPT !.client = TRUE]
            /\ call' = [call EXCEPT ![cb] = [pc |-> "sub_ping", ref |-> FALSE]]
            /\ UNCHANGED <<subscribers, running, listenerTask, lst>>
       ELSE SubContinue(cb, conn)
    /\ UNCHANGED <<up, failures, stops, sd>>
    /\ UNCHANGED <<pipeVars, busVars, gwVars, fnVars>>

\* await self._async_client.ping() returns or raises
SubPingDone(cb) ==
    /\ call[cb].pc = "sub_ping"
    /\ IF ~up
       THEN /\ call' = [call EXCEPT ![cb] = [pc |-> "raised", ref |-> FALSE]]
            /\ UNCHANGED <<conn, subscribers, running, listenerTask, lst>>
       ELSE SubContinue(cb, conn)
    /\ UNCHANGED <<up, failures, stops, sd>>
    /\ UNCHANGED <<pipeVars, busVars, gwVars, fnVars>>

\* await self._async_pubsub.subscribe(channel) returns or raises
SubTransportDone(cb) ==
    /\ call[cb].pc = "sub_transport"
    /\ IF ~up
       THEN \* ConnectionError: the empty list stays in the registry
            /\ call' = [call EXCEPT ![cb] = [pc |-> "raised", ref |-> FALSE]]
            /\ UNCHANGED <<conn, subscribers, running, listenerTask, lst>>
       ELSE SubFinish(cb, subscribers,
                      IF call[cb].ref THEN [conn EXCEPT !.tch = @ \cup {ChannelOf(cb)}] ELSE conn)
    /\ UNCHANGED <<up, failures, stops, sd>>
    /\ UNCHANGED <<pipeVars, busVars, gwVars, fnVars>>

\* unsubscribe(channel, callback) is called: up to its first await
UnsubCall(cb) ==
    /\ call[cb].pc = "subscribed"
    /\ LET ch == ChannelOf(cb)
           reg == IF HasChannel(subscribers, ch) THEN RegRemove(subscribers, ch, cb) ELSE subscribers
       IN  IF ~HasChannel(subscribers, ch) \/ CallbacksOf(reg, ch) # <<>>
           THEN /\ subscribers' = reg
                /\ call' = [call EXCEPT ![cb] = [pc |-> "done", ref |-> FALSE]]
           ELSE IF conn.psub
           THEN /\ subscribers' = reg
                /\ call' = [call EXCEPT ![cb] = [pc |-> "unsub_transport", ref |-> ~conn.closed]]
           ELSE /\ subscribers' = RegDel(reg, ch)
                /\ call' = [call EXCEPT ![cb] = [pc |-> "done", ref |-> FALSE]]
    /\ UNCHANGED <<up, failures, stops, running, conn, listenerTask, lst, sd>>
    /\ UNCHANGED <<pipeVars, busVars, gwVars, fnVars>>

\* await self._async_pubsub.unsubscribe(channel) returns or raises, then
\* del self._subscribers[channel]
UnsubTransportDone(cb) ==
    /\ call[cb].pc = "unsub_transport"
    /\ LET ch == ChannelOf(cb)
       IN  IF ~up
           THEN /\ call' = [call EXCEPT ![cb] = [pc |-> "raised", ref |-> FALSE]]
                /\ UNCHANGED <<conn, subscribers>>
           ELSE /\ conn' = IF call[cb].ref THEN [conn EXCEPT !.tch = @ \ {ch}] ELSE conn
                /\ IF HasChannel(subscribers, ch)
                   THEN /\ subscribers' = RegDel(subscribers, ch)
                        /\ call' = [call EXCEPT ![cb] = [pc |-> "done", ref |-> FALSE]]
                   ELSE \* KeyError
                        /\ subscribers' = subscribers
                        /\ call' = [call EXCEPT ![cb] = [pc |-> "raised", ref |-> FALSE]]
    /\ UNCHANGED <<up, failures, stops, running, listenerTask, lst, sd>>
    /\ UNCHANGED <<pipeVars, busVars, gwVars, fnVars>>

-----------------------------------------------------------------------------
(* Actions of the pipeline *)

\* midnight UTC passes
DayTick ==
    /\ today < FirstDay + MaxDayTicks
    /\ today' = today + 1
    /\ UNCHANGED <<apps, pc, job, scanned, notifications, published, writes, handled>>
    /\ UNCHANGED <<task, firestore, emitResult, dropped>>
    /\ UNCHANGED <<brokerVars, busVars, gwVars, fnVars>>

\* how emit ends once its only handler task has ended with outcome st
EmitOutcome(st) == Gather(<<[h |-> "handle_deadline_approaching", st |-> st]>>)

\* process_single_application(uid, app) in process p, event_bus.emit and the
\* handler up to its first Firestore round trip
ScanEffect(p, a) ==
    /\ pc[p] = "idle"
    /\ LET r == ProcessSingleApplication(apps[a].user_id, a, apps[a], today)
           targets == IF r.event = NoEvent THEN <<>> ELSE EmitTargets(r.event.type)
           j == IF \E i \in DOMAIN targets : targets[i] = "handle_deadline_approaching"
                THEN HandlerPrepare(r.event.payload)
                ELSE NoJob
       IN  /\ scanned' = [app |-> a, parsed |-> r.parsed, delta |-> r.delta, event |-> r.event]
           /\ job' = [job EXCEPT ![p] = j]
           /\ pc' = [pc EXCEPT ![p] = IF j = NoJob THEN "idle" ELSE "get"]
           /\ emitResult' = [emitResult EXCEPT ![p] =
                               IF r.event = NoEvent THEN "none"
                               ELSE IF j = NoJob THEN EmitOutcome("done")
                               ELSE "gather"]
    /\ UNCHANGED <<today, apps, notifications, published, writes, handled>>
    /\ UNCHANGED <<brokerVars, busVars, gwVars, fnVars>>

Scan(p, a) ==
    /\ ScanEffect(p, a)
    /\ UNCHANGED <<task, firestore, dropped>>

\* a Firestore call of the handler raises: the handler task ends with the error
HandlerFails(p, op) ==
    /\ pc' = [pc EXCEPT ![p] = "idle"]
    /\ emitResult' = [emitResult EXCEPT ![p] = EmitOutcome("failed")]
    /\ dropped' = dropped \cup {[op |-> op, day |-> today, tuple |-> JobTuple(job[p])]}
    /\ UNCHANGED <<notifications, writes, handled>>

\* line 105: if doc_ref.get().exists: return
HandlerGet(p) ==
    /\ pc[p] = "get"
    /\ IF ~firestore.up
       THEN HandlerFails(p, "get")
       ELSE /\ IF DocExists(notifications, job[p].id)
               THEN /\ pc' = [pc EXCEPT ![p] = "idle"]
                    /\ handled' = handled \cup {JobTuple(job[p])}
                    /\ emitResult' = [emitResult EXCEPT ![p] = EmitOutcome("done")]
               ELSE /\ pc' = [pc EXCEPT ![p] = "set"]
                    /\ handled' = handled
                    /\ emitResult' = emitResult
            /\ UNCHANGED <<notifications, writes, dropped>>
    /\ UNCHANGED <<today, apps, job, scanned, published, task, firestore>>
    /\ UNCHANGED <<brokerVars, busVars, gwVars, fnVars>>

\* line 120: doc_ref.set(notification_data)
HandlerSet(p) ==
    /\ pc[p] = "set"
    /\ IF ~firestore.up
       THEN HandlerFails(p, "set")
       ELSE /\ notifications' = DocSet(notifications, job[p].id, NotificationData(job[p]))
            /\ writes' = Bump(writes, job[p].id)
            /\ pc' = [pc EXCEPT ![p] = "publish"]
            /\ UNCHANGED <<handled, emitResult, dropped>>
    /\ UNCHANGED <<today, apps, job, scanned, published, task, firestore>>
    /\ UNCHANGED <<brokerVars, busVars, gwVars, fnVars>>

\* lines 124-128: pubsub.publish(channel_user_notifications(uid), realtime_payload)
HandlerPublish(p) ==
    /\ pc[p] = "publish"
    /\ published' = published (+) SetToBag({<<channel_user_notifications(job[p].uid),
                                              RealtimePayload(job[p])>>})
    /\ handled' = handled \cup {JobTuple(job[p])}
    /\ pc' = [pc EXCEPT ![p] = "idle"]
    /\ emitResult' = [emitResult EXCEPT ![p] = EmitOutcome("done")]
    /\ UNCHANGED <<today, apps, job, scanned, notifications, writes, task, firestore, dropped>>
    /\ UNCHANGED <<brokerVars, busVars, gwVars, fnVars>>

Next ==
    \/ DayTick
    \/ \E p \in Procs, a \in AppIds : Scan(p, a)
    \/ \E p \in Procs : HandlerGet(p)
    \/ \E p \in Procs : HandlerSet(p)
    \/ \E p \in Procs : HandlerPublish(p)

Spec == Init /\ [][Next]_vars

\* the daily Celery beat run alone: one process, one handler at a time
NextDaily ==
    \/ DayTick
    \/ \E a \in AppIds : Scan("worker", a)
    \/ HandlerGet("worker")
    \/ HandlerSet("worker")
    \/ HandlerPublish("worker")

SpecDaily == Init /\ [][NextDaily]_vars

\* a loop whose  except Exception  (lines 225-229) starts a reconnect
LoopTop_Escalate(t, isRunning, c) ==
    IF ~isRunning THEN [NoTask EXCEPT !.pc = "done"]
    ELSE IF ~c.psub
    THEN [NoTask EXCEPT !.pc = "backoff", !.attempts = t.attempts + 1]
    ELSE [NoTask EXCEPT !.pc = "poll", !.attempts = t.attempts, !.ref = ~c.closed]

\* _listen from the top of  while self._running  to its next await (lines 160-165
\* and, for a missing pubsub object, lines 225-229)
LoopTop(t, isRunning, c) ==
    IF ~isRunning THEN [NoTask EXCEPT !.pc = "done"]
    ELSE IF ~c.psub
    THEN [NoTask EXCEPT !.pc = "sleep5", !.attempts = t.attempts]
    ELSE [NoTask EXCEPT !.pc = "poll", !.attempts = t.attempts, !.ref = ~c.closed]

\* the task created by _start_listening runs for the first time
ListenerStart(l) ==
    /\ lst[l].pc = "ready"
    /\ lst' = [lst EXCEPT ![l] = LoopTop(lst[l], running, conn)]
    /\ UNCHANGED <<up, failures, stops, running, conn, subscribers, listenerTask, call, sd>>
    /\ UNCHANGED <<pipeVars, busVars, gwVars, fnVars>>

\* what Redis delivers on a channel: what the notification handlers published on
\* it and what other publishers send
Wire(c) ==
    {json_dumps(x[2]) : x \in {y \in BagToSet(published) : y[1] = c}} \cup ForeignPayloads

\* the absence of a message
NoMessage == [channel |-> None, data |-> NoPayload]

\* what get_message can return on a live subscription: None or a message of a
\* subscribed channel
Polled ==
    {NoMessage} \cup UNION {{[channel |-> c, data |-> d] : d \in Wire(c)} : c \in conn.tch}

\* the first call of  for callback in list(self._subscribers[channel])  (lines
\* 181-185)
DispatchStart(t, m, reg) ==
    LET data == Deserialize(m.data)
        cbs == CallbacksOf(reg, m.channel)
    IN  [t EXCEPT !.pc = "dispatch", !.cur = m.channel, !.raw = m.data, !.data = data,
                  !.regd = cbs, !.todo = cbs,
                  !.invoked = <<[cb |-> Head(cbs), arg |-> data]>>]

\* a delay that doubles without a cap
Backoff_Uncapped(reconnect_attempts) == 2 ^ reconnect_attempts

\* backoff = min(2 ** reconnect_attempts, 60)  (line 199), computed before the
\* counter is incremented
Backoff(reconnect_attempts) ==
    IF 2 ^ reconnect_attempts < 60 THEN 2 ^ reconnect_attempts ELSE 60

\* await get_message(timeout=1.0) returns or raises (lines 162-200)
PollDone(l) ==
    /\ lst[l].pc = "poll"
    /\ IF ~up \/ ~lst[l].ref
       THEN \* ConnectionError
            lst' = [lst EXCEPT ![l] =
                      IF ~running THEN [NoTask EXCEPT !.pc = "done"]
                      ELSE [@ EXCEPT !.pc = "backoff", !.attempts = @ + 1,
                                     !.backoff = Backoff(lst[l].attempts)]]
       ELSE \E m \in Polled :
              lst' = [lst EXCEPT ![l] =
                        IF m = NoMessage THEN LoopTop(@, running, conn)
                        ELSE IF CallbacksOf(subscribers, m.channel) = <<>>
                        THEN LoopTop([@ EXCEPT !.attempts = 0], running, conn)
                        ELSE DispatchStart(@, m, subscribers)]
    /\ UNCHANGED <<up, failures, stops, running, conn, subscribers, listenerTask, call, sd>>
    /\ UNCHANGED <<pipeVars, busVars, gwVars, fnVars>>

\* how a call  callback(data)  can end
CallbackOutcomes == {"returned", "raised"}

\* the loop body without  try ... except Exception  around the call (lines 184-187)
CallbackCaught_Never == FALSE

\* try: await callback(data)  except Exception (lines 184-187): the exception of
\* a callback is logged there
CallbackCaught == TRUE

\* await callback(data) returns or raises (lines 183-189); an exception that is
\* not caught in the loop body reaches  except Exception  of the loop (lines
\* 225-229)
DispatchDone(l) ==
    /\ lst[l].pc = "dispatch"
    /\ \E o \in CallbackOutcomes :
          lst' = [lst EXCEPT ![l] =
                    IF o = "raised" /\ ~CallbackCaught
                    THEN IF ~running THEN [NoTask EXCEPT !.pc = "done"]
                         ELSE [NoTask EXCEPT !.pc = "sleep5", !.attempts = lst[l].attempts]
                    ELSE IF Len(@.todo) > 1
                    THEN [@ EXCEPT !.todo = Tail(@),
                                   !.invoked = Append(@, [cb |-> lst[l].todo[2],
                                                          arg |-> lst[l].data]),
                                   !.errs = IF o = "raised"
                                            THEN @ \cup {Head(lst[l].todo)} ELSE @]
                    ELSE LoopTop([@ EXCEPT !.attempts = 0], running, conn)]
    /\ UNCHANGED <<up, failures, stops, running, conn, subscribers, listenerTask, call, sd>>
    /\ UNCHANGED <<pipeVars, busVars, gwVars, fnVars>>

\* _close_async_resources up to its first await (lines 235-237, 242-244): where
\* it suspends ("close1", "close2") or "end" when there is nothing to close
CloseStart(c) ==
    IF c.psub THEN [conn |-> [c EXCEPT !.closed = TRUE], at |-> "close1"]
    ELSE IF c.client THEN [conn |-> c, at |-> "close2"]
    ELSE [conn |-> c, at |-> "end"]

\* _close_async_resources after  await self._async_pubsub.close()  (lines 240-244)
CloseMiddle(c) ==
    LET c1 == [c EXCEPT !.psub = FALSE, !.closed = FALSE, !.tch = {}]
    IN  IF c1.client THEN [conn |-> c1, at |-> "close2"] ELSE [conn |-> c1, at |-> "end"]

\* _close_async_resources after  await self._async_client.close()  (line 247)
CloseEnd(c) == [c EXCEPT !.client = FALSE]

\* lines 211-213: a new client, then  await ping()
RcAfterClose(t, r) ==
    [t EXCEPT !.pc = IF r.at = "end" THEN "rc_ping" ELSE "rc_" \o r.at, !.ref = FALSE]

RcConn(r) == IF r.at = "end" THEN [r.conn EXCEPT !.client = TRUE] ELSE r.conn

\* await asyncio.sleep(backoff) returns: close the old resources (lines 205-209)
BackoffDone(l) ==
    /\ lst[l].pc = "backoff"
    /\ LET r == CloseStart(conn)
       IN  /\ conn' = RcConn(r)
           /\ lst' = [(IF conn.psub THEN StaleTasks(lst) ELSE lst) EXCEPT ![l] = RcAfterClose(lst[l], r)]
           /\ call' = IF conn.psub THEN StaleCalls(call) ELSE call
    /\ UNCHANGED <<up, failures, stops, running, subscribers, listenerTask, sd>>
    /\ UNCHANGED <<pipeVars, busVars, gwVars, fnVars>>

\* await self._async_pubsub.close() returns inside the reconnect
RcClose1Done(l) ==
    /\ lst[l].pc = "rc_close1"
    /\ LET r == CloseMiddle(conn)
       IN  /\ conn' = RcConn(r)
           /\ lst' = [StaleTasks(lst) EXCEPT ![l] = RcAfterClose(lst[l], r)]
           /\ call' = StaleCalls(call)
    /\ UNCHANGED <<up, failures, stops, running, subscribers, listenerTask, sd>>
    /\ UNCHANGED <<pipeVars, busVars, gwVars, fnVars>>

\* await self._async_client.close() returns inside the reconnect
RcClose2Done(l) ==
    /\ lst[l].pc = "rc_close2"
    /\ conn' = [conn EXCEPT !.client = TRUE]
    /\ lst' = [lst EXCEPT ![l].pc = "rc_ping"]
    /\ UNCHANGED <<up, failures, stops, running, subscribers, listenerTask, call, sd>>
    /\ UNCHANGED <<pipeVars, busVars, gwVars, fnVars>>

\* the channels of the registry the  for channel in self._subscribers  loop has
\* still to visit
Unvisited(reg, vis) == SelectSeq(reg, LAMBDA e : e.channel \notin vis)

\* await self._async_client.ping() returns or raises inside the reconnect, then
\* the new pubsub object and the first re-subscribe (lines 213-218)
RcPingDone(l) ==
    /\ lst[l].pc = "rc_ping"
    /\ IF ~up \/ ~conn.client
       THEN \* reconnect failed: logged, back to the loop
            /\ lst' = [lst EXCEPT ![l] = LoopTop(@, running, conn)]
            /\ UNCHANGED <<conn, call>>
       ELSE LET c1 == [conn EXCEPT !.psub = TRUE, !.closed = FALSE, !.tch = {}]
            IN  /\ conn' = c1
                /\ call' = StaleCalls(call)
                /\ lst' = [StaleTasks(lst) EXCEPT ![l] =
                             IF subscribers = <<>>
                             THEN LoopTop([lst[l] EXCEPT !.attempts = 0], running, c1)
                             ELSE [lst[l] EXCEPT !.pc = "rc_sub", !.ref = TRUE,
                                                 !.cur = subscribers[1].channel,
                                                 !.visited = {}, !.size = Len(subscribers)]]
    /\ UNCHANGED <<up, failures, stops, running, subscribers, listenerTask, sd>>
    /\ UNCHANGED <<pipeVars, busVars, gwVars, fnVars>>

\* await self._async_pubsub.subscribe(channel) returns or raises inside the
\* reconnect, then the next channel of the loop (lines 217-221)
RcSubDone(l) ==
    /\ lst[l].pc = "rc_sub"
    /\ IF ~up
       THEN /\ lst' = [lst EXCEPT ![l] = LoopTop(@, running, conn)]
            /\ conn' = conn
       ELSE LET c1 == IF lst[l].ref THEN [conn EXCEPT !.tch = @ \cup {lst[l].cur}] ELSE conn
                vis == lst[l].visited \cup {lst[l].cur}
                rest == Unvisited(subscribers, vis)
            IN  /\ conn' = c1
                /\ lst' = [lst EXCEPT ![l] =
                             IF Len(subscribers) # @.size
                             THEN \* RuntimeError: dictionary changed size during iteration
                                  LoopTop(@, running, c1)
                             ELSE IF rest = <<>>
                             THEN LoopTop([@ EXCEPT !.attempts = 0], running, c1)
                             ELSE IF ~c1.psub
                             THEN LoopTop(@, running, c1)
                             ELSE [@ EXCEPT !.cur = rest[1].channel, !.visited = vis,
                                            !.ref = ~c1.closed]]
    /\ UNCHANGED <<up, failures, stops, running, subscribers, listenerTask, call, sd>>
    /\ UNCHANGED <<pipeVars, busVars, gwVars, fnVars>>

\* await asyncio.sleep(5) returns (line 229)
Sleep5Done(l) ==
    /\ lst[l].pc = "sleep5"
    /\ lst' = [lst EXCEPT ![l] = LoopTop(@, running, conn)]
    /\ UNCHANGED <<up, failures, stops, running, conn, subscribers, listenerTask, call, sd>>
    /\ UNCHANGED <<pipeVars, busVars, gwVars, fnVars>>

\* shutdown from _close_async_resources on (lines 264-265), given where the
\* close suspends
ShutdownAfter(r) ==
    /\ conn' = r.conn
    /\ IF r.at = "end"
       THEN subscribers' = <<>> /\ sd' = "done"
       ELSE subscribers' = subscribers /\ sd' = r.at

\* shutdown() is called: up to its first await (lines 255-264)
ShutdownCall ==
    /\ sd = "idle"
    /\ running' = FALSE
    /\ IF listenerTask # 0 /\ Active(listenerTask)
       THEN \* cancel the task and await it
            /\ lst' = [lst EXCEPT ![listenerTask] = [NoTask EXCEPT !.pc = "done"]]
            /\ sd' = "wait"
            /\ UNCHANGED <<conn, subscribers, call>>
       ELSE /\ ShutdownAfter(CloseStart(conn))
            /\ lst' = IF conn.psub THEN StaleTasks(lst) ELSE lst
            /\ call' = IF conn.psub THEN StaleCalls(call) ELSE call
    /\ UNCHANGED <<up, failures, stops, listenerTask>>
    /\ UNCHANGED <<pipeVars, busVars, gwVars, fnVars>>

\* await self._listener_task returns (lines 260-264)
ShutdownWaitDone ==
    /\ sd = "wait"
    /\ ShutdownAfter(CloseStart(conn))
    /\ lst' = IF conn.psub THEN StaleTasks(lst) ELSE lst
    /\ call' = IF conn.psub THEN StaleCalls(call) ELSE call
    /\ UNCHANGED <<up, failures, stops, running, listenerTask>>
    /\ UNCHANGED <<pipeVars, busVars, gwVars, fnVars>>

\* await self._async_pubsub.close() returns inside shutdown
ShutdownClose1Done ==
    /\ sd = "close1"
    /\ ShutdownAfter(CloseMiddle(conn))
    /\ lst' = StaleTasks(lst)
    /\ call' = StaleCalls(call)
    /\ UNCHANGED <<up, failures, stops, running, listenerTask>>
    /\ UNCHANGED <<pipeVars, busVars, gwVars, fnVars>>

\* await self._async_client.close() returns inside shutdown, then
\* self._subscribers.clear()
ShutdownClose2Done ==
    /\ sd = "close2"
    /\ conn' = CloseEnd(conn)
    /\ subscribers' = <<>>
    /\ sd' = "done"
    /\ UNCHANGED <<up, failures, stops, running, listenerTask, lst, call>>
    /\ UNCHANGED <<pipeVars, busVars, gwVars, fnVars>>

\* stop_listening() (lines 268-270)
StopListening ==
    /\ stops < MaxStops
    /\ stops' = stops + 1
    /\ running' = FALSE
    /\ UNCHANGED <<up, failures, conn, subscribers, listenerTask, lst, call, sd>>
    /\ UNCHANGED <<pipeVars, busVars, gwVars, fnVars>>

\* the connection to the Redis server is lost
TransportFail ==
    /\ up
    /\ failures < MaxFailures
    /\ up' = FALSE
    /\ failures' = failures + 1
    /\ UNCHANGED <<stops, running, conn, subscribers, listenerTask, lst, call, sd>>
    /\ UNCHANGED <<pipeVars, busVars, gwVars, fnVars>>

\* the connection is lost, in a run of repeated reconnects
TransportFailAgain ==
    /\ up
    /\ failures < MaxOutages
    /\ up' = FALSE
    /\ failures' = failures + 1
    /\ UNCHANGED <<stops, running, conn, subscribers, listenerTask, lst, call, sd>>
    /\ UNCHANGED <<pipeVars, busVars, gwVars, fnVars>>

\* the Redis server is reachable again
TransportRecover ==
    /\ ~up
    /\ up' = TRUE
    /\ UNCHANGED <<failures, stops, running, conn, subscribers, listenerTask, lst, call, sd>>
    /\ UNCHANGED <<pipeVars, busVars, gwVars, fnVars>>

-----------------------------------------------------------------------------
(* Specifications of the broker *)

ListenerStep(l) ==
    \/ ListenerStart(l)
    \/ PollDone(l)
    \/ DispatchDone(l)
    \/ BackoffDone(l)
    \/ RcClose1Done(l)
    \/ RcClose2Done(l)
    \/ RcPingDone(l)
    \/ RcSubDone(l)
    \/ Sleep5Done(l)

SubscribeStep(cb) == SubCall(cb) \/ SubPingDone(cb) \/ SubTransportDone(cb)

UnsubscribeStep(cb) == UnsubCall(cb) \/ UnsubTransportDone(cb)

ShutdownStep == ShutdownCall \/ ShutdownWaitDone \/ ShutdownClose1Done \/ ShutdownClose2Done

\* one fixed content of the application documents
QuietPipeInit ==
    /\ PipeInit
    /\ apps["a1"].apply_date = IsoFormat(FirstDay + MaxAhead)
    /\ apps["a2"].deadline = None

BrokerStart == QuietPipeInit /\ BrokerInit /\ BusInit /\ GatewayInit /\ NoCalls

\* concurrent subscribe and unsubscribe calls on a healthy transport
NextSubs ==
    \/ \E cb \in Callbacks : SubscribeStep(cb)
    \/ \E cb \in Callbacks : UnsubscribeStep(cb)
    \/ \E l \in Listeners : ListenerStart(l) \/ PollDone(l) \/ DispatchDone(l)

SpecSubs == BrokerStart /\ [][NextSubs]_vars

\* the calls of the public interface on a healthy transport
NextLifecycle ==
    \/ \E cb \in {"cb1", "cb2"} : SubscribeStep(cb)
    \/ \E cb \in {"cb1", "cb2"} : UnsubscribeStep(cb)
    \/ \E l \in Listeners : ListenerStep(l)
    \/ ShutdownStep
    \/ StopListening

SpecLifecycle == BrokerStart /\ [][NextLifecycle]_vars

\* no subscribe call is suspended and some callback is registered
Settled ==
    /\ \A cb \in Callbacks : call[cb].pc \in {"new", "subscribed"}
    /\ \E cb \in Callbacks : call[cb].pc = "subscribed"

\* the application subscribes, then the transport fails and recovers; the
\* application makes no call after the first failure
NextReconnect ==
    \/ \E cb \in Callbacks : failures = 0 /\ SubscribeStep(cb)
    \/ \E l \in Listeners : ListenerStep(l)
    \/ Settled /\ TransportFail
    \/ TransportRecover

\* the event loop runs every task that is ready, and every sleep and every
\* transport call returns or raises; an outage ends
SpecReconnect ==
    /\ BrokerStart
    /\ [][NextReconnect]_vars
    /\ WF_vars(\E l \in Listeners : ListenerStep(l))
    /\ WF_vars(\E cb \in Callbacks : failures = 0 /\ SubscribeStep(cb))
    /\ WF_vars(TransportRecover)


\* subscribe calls and the listener while the transport fails and recovers
NextOutage ==
    \/ \E cb \in Callbacks : SubscribeStep(cb)
    \/ \E l \in Listeners : ListenerStep(l)
    \/ TransportFail
    \/ TransportRecover

SpecOutage == BrokerStart /\ [][NextOutage]_vars

-----------------------------------------------------------------------------
(* services/tasks.py : check_application_deadlines, run daily by Celery beat *)

\* users.stream() and, per user, apps_ref.stream(): the applications in the
\* order of their document paths
ScanOrder == <<"a1", "a2">>

\* the string process_single_application parses
TargetDateStr(data) == IF data.apply_date # None THEN data.apply_date ELSE data.deadline

\* lines 258-262: what the parse raises inside the try block
ParseError(data) ==
    IF TargetDateStr(data) = None THEN None
    ELSE IF ~ParseOk(TargetDateStr(data)) THEN "ValueError"
    ELSE None

\* a process_single_application without except clauses
ExceptClauses_None == {}

\* lines 290-294: except ValueError, except Exception
ExceptClauses == {"ValueError", "Exception"}

\* process_single_application lets the exception out
ScanRaises(data) == ParseError(data) # None /\ ParseError(data) \notin ExceptClauses

\* lines 239-241: except Exception of check_application_deadlines
TaskError(cause) == [task EXCEPT !.status = "error", !.cause = cause, !.cursor = 0]

\* Celery beat starts the task: crontab(hour=0, minute=0), once a day
TaskStart ==
    /\ task.status # "running"
    /\ task.lastRun < today
    /\ pc["worker"] = "idle"
    /\ task' = IF firestore.up
               THEN [status |-> "running", cause |-> None, cursor |-> 1, processed |-> <<>>,
                     lastRun |-> today]
               ELSE [status |-> "error", cause |-> "store", cursor |-> 0, processed |-> <<>>,
                     lastRun |-> today]
    /\ UNCHANGED <<today, apps, pc, job, scanned, notifications, published, writes, handled,
                   firestore, emitResult, dropped>>
    /\ UNCHANGED <<brokerVars, busVars, gwVars, fnVars>>

\* one iteration of the loops of lines 225-233; asyncio.run of the previous
\* iteration has returned
TaskStep ==
    /\ task.status = "running"
    /\ task.cursor <= Len(ScanOrder)
    /\ pc["worker"] = "idle"
    /\ LET a == ScanOrder[task.cursor]
       IN  IF ~firestore.up \/ ScanRaises(apps[a])
           THEN /\ task' = TaskError(IF ~firestore.up THEN "store" ELSE "data")
                /\ UNCHANGED <<today, apps, pc, job, scanned, notifications, published,
                               writes, handled, emitResult>>
                /\ UNCHANGED <<brokerVars, busVars, gwVars, fnVars>>
           ELSE /\ ScanEffect("worker", a)
                /\ task' = [task EXCEPT !.cursor = @ + 1,
                                        !.processed = Append(@, [app |-> a,
                                                                 parsed |-> scanned'.parsed,
                                                                 emitted |-> scanned'.event # NoEvent])]
    /\ UNCHANGED <<firestore, dropped>>

\* lines 235-236: the loops are over, the task returns its count
TaskEnd ==
    /\ task.status = "running"
    /\ task.cursor = Len(ScanOrder) + 1
    /\ pc["worker"] = "idle"
    /\ task' = [task EXCEPT !.status = "success", !.cursor = 0]
    /\ UNCHANGED <<today, apps, pc, job, scanned, notifications, published, writes, handled,
                   firestore, emitResult, dropped>>
    /\ UNCHANGED <<brokerVars, busVars, gwVars, fnVars>>

\* Firestore becomes unreachable
StoreFail ==
    /\ firestore.up
    /\ firestore.failures < MaxStoreFailures
    /\ firestore' = [up |-> FALSE, failures |-> firestore.failures + 1]
    /\ UNCHANGED <<today, apps, pc, job, scanned, notifications, published, writes, handled,
                   task, emitResult, dropped>>
    /\ UNCHANGED <<brokerVars, busVars, gwVars, fnVars>>

\* Firestore is reachable again
StoreRecover ==
    /\ ~firestore.up
    /\ firestore' = [firestore EXCEPT !.up = TRUE]
    /\ UNCHANGED <<today, apps, pc, job, scanned, notifications, published, writes, handled,
                   task, emitResult, dropped>>
    /\ UNCHANGED <<brokerVars, busVars, gwVars, fnVars>>

\* apply_date and deadline of the first application absent, or apply_date malformed
BadDates == {None, "2026/11/12"}

\* the stored applications, the first of them possibly without a usable date
ScanInit ==
    /\ today = FirstDay
    /\ \E t1 \in {IsoFormat(t) : t \in TargetDays} \cup BadDates, d2 \in OtherDeadlines :
          apps = [a \in AppIds |->
                    IF a = "a1"
                    THEN [user_id |-> OwnerOf(a), scholarship_name |-> "Fulbright",
                          apply_date |-> t1, deadline |-> None]
                    ELSE [user_id |-> OwnerOf(a), scholarship_name |-> "Chevening",
                          apply_date |-> None, deadline |-> d2]]
    /\ pc = [p \in Procs |-> "idle"]
    /\ job = [p \in Procs |-> NoJob]
    /\ scanned = [app |-> None, parsed |-> FALSE, delta |-> 0, event |-> NoEvent]
    /\ notifications = <<>>
    /\ published = EmptyBag
    /\ writes = <<>>
    /\ handled = {}
    /\ task = NoRun
    /\ firestore = [up |-> TRUE, failures |-> 0]
    /\ emitResult = [p \in Procs |-> "none"]
    /\ dropped = {}

\* the daily task on the Celery worker, with outages of Firestore
NextScan ==
    \/ DayTick
    \/ TaskStart
    \/ TaskStep
    \/ TaskEnd
    \/ HandlerGet("worker")
    \/ HandlerSet("worker")
    \/ HandlerPublish("worker")
    \/ StoreFail
    \/ StoreRecover

\* beat fires every day, the worker runs what it has started, an outage ends
ScanStart == ScanInit /\ BrokerInit /\ BusInit /\ GatewayInit /\ NoCalls

SpecScan ==
    /\ ScanStart
    /\ [][NextScan]_vars
    /\ WF_vars(DayTick)
    /\ WF_vars(TaskStart \/ TaskStep \/ TaskEnd)
    /\ WF_vars(HandlerGet("worker") \/ HandlerSet("worker") \/ HandlerPublish("worker"))
    /\ WF_vars(StoreRecover)

-----------------------------------------------------------------------------
(* Actions of the event bus *)

\* EventManager.subscribe(event_type, handler) (lines 15-20)
BusRegister(reg, t, h) ==
    IF t \in DOMAIN reg
    THEN [reg EXCEPT ![t] = Append(@, h)]
    ELSE [x \in DOMAIN reg \cup {t} |-> IF x = t THEN <<h>> ELSE reg[x]]

\* the number of handlers in the registry
Registered_Handlers(reg) ==
    Cardinality({<<t, i>> \in EventTypes \X (1 .. MaxRegistrations + 1) :
                    t \in DOMAIN reg /\ i <= Len(reg[t])})

BusSubscribe(t, h) ==
    /\ Registered_Handlers(busSubscribers) < Cardinality(AppHandlers) + MaxRegistrations
    /\ busSubscribers' = BusRegister(busSubscribers, t, h)
    /\ UNCHANGED <<emits, effects>>
    /\ UNCHANGED <<pipeVars, brokerVars, gwVars, fnVars>>

\* line 24: event_type not in self._subscribers
NoSubscribers_Never(reg, t) == FALSE

NoSubscribers(reg, t) == t \notin DOMAIN reg

\* lines 31-44: one awaitable per handler; a coroutine is created and waits to
\* be scheduled, a plain function is handed to the thread pool
PrepareTasks_FirstOnly(hs) ==
    [i \in 1 .. Len(hs) |-> [h |-> hs[i], st |-> IF i = 1 THEN "scheduled" ELSE "pending"]]

PrepareTasks(hs) ==
    [i \in 1 .. Len(hs) |->
        [h |-> hs[i], st |-> IF IsCoroutineFunction(hs[i]) THEN "scheduled" ELSE "thread"]]

\* emit(event_type, payload) is called: up to  await asyncio.gather  (lines 22-47)
EmitCall(e, t) ==
    /\ emits[e].pc = "idle"
    /\ emits' = [emits EXCEPT ![e] =
                   IF NoSubscribers(busSubscribers, t)
                   THEN [pc |-> "returned", type |-> t, handlers |-> <<>>, tasks |-> <<>>]
                   ELSE IF t \notin DOMAIN busSubscribers
                   THEN \* KeyError at  self._subscribers[event_type]
                        [pc |-> "raised", type |-> t, handlers |-> <<>>, tasks |-> <<>>]
                   ELSE LET tasks == PrepareTasks(busSubscribers[t])
                        IN  [pc |-> IF tasks = <<>> THEN "returned" ELSE "gather",
                             type |-> t, handlers |-> busSubscribers[t], tasks |-> tasks]]
    /\ UNCHANGED <<busSubscribers, effects>>
    /\ UNCHANGED <<pipeVars, brokerVars, gwVars, fnVars>>

\* a handler task runs: from its creation to its first await or its end, or
\* from its await to its end
HandlerRun(e, i) ==
    /\ emits[e].pc = "gather"
    /\ i \in DOMAIN emits[e].tasks
    /\ LET t == emits[e].tasks[i]
       IN  \/ /\ t.st = "scheduled" /\ t.h = "slow_handler"
              /\ emits' = [emits EXCEPT ![e].tasks[i].st = "suspended"]
              /\ effects' = effects
           \/ /\ \/ t.st = "scheduled" /\ t.h # "slow_handler"
                 \/ t.st \in {"suspended", "thread"}
              /\ \E o \in Outcomes(t.h) :
                    /\ emits' = [emits EXCEPT ![e].tasks[i].st = o]
                    /\ effects' = IF o = "done" THEN effects \cup {<<e, i>>} ELSE effects
    /\ UNCHANGED busSubscribers
    /\ UNCHANGED <<pipeVars, brokerVars, gwVars, fnVars>>

\* the awaited gather resumes emit, which returns to its caller
EmitReturn(e) ==
    /\ emits[e].pc = "gather"
    /\ Gather(emits[e].tasks) # "gather"
    /\ emits' = [emits EXCEPT ![e].pc = Gather(emits[e].tasks)]
    /\ UNCHANGED <<busSubscribers, effects>>
    /\ UNCHANGED <<pipeVars, brokerVars, gwVars, fnVars>>

NextBus ==
    \/ \E t \in SubscribedTypes, h \in OtherHandlers : BusSubscribe(t, h)
    \/ \E e \in Emits, t \in EventTypes : EmitCall(e, t)
    \/ \E e \in Emits, i \in 1 .. MaxRegistrations + 1 : HandlerRun(e, i)
    \/ \E e \in Emits : EmitReturn(e)

SpecBus == BrokerStart /\ [][NextBus]_vars

-----------------------------------------------------------------------------
(* Observers used by the properties *)

\* the four-tuple a stored notification stands for
TupleOf(doc) == <<doc.userId, doc.metadata.application_id, doc.type, doc.metadata.deadline_date>>

\* ids of the stored notifications of one four-tuple
RecordsFor(t) == {k \in DOMAIN notifications : TupleOf(notifications[k]) = t}

\* number of published messages whose payload stands for four-tuple t
PubCount(t) ==
    LET hits == {m \in BagToSet(published) : TupleOf(m[2]) = t}
    IN  BagCardinality([m \in hits |-> published[m]])

\* number of published messages carrying id k
PubCountId(k) ==
    LET hits == {m \in BagToSet(published) : m[2].id = k}
    IN  BagCardinality([m \in hits |-> published[m]])

Idle == \A p \in Procs : pc[p] = "idle"

-----------------------------------------------------------------------------
(* Properties of the pipeline *)

\* C1: once at least one handle_deadline_approaching run for a four-tuple
\* (user_id, application_id, type, deadline_date) has finished, the store holds
\* exactly one notification for that tuple; at no time does it hold two.
C1_ExactlyOneRecord ==
    /\ \A t \in handled : Cardinality(RecordsFor(t)) = 1
    /\ \A k1, k2 \in DOMAIN notifications :
          TupleOf(notifications[k1]) = TupleOf(notifications[k2]) => k1 = k2

\* two interleaved runs for one tuple have both written and finished
C1_Witness ==
    /\ Idle
    /\ \E k \in DOMAIN writes :
          /\ writes[k] = 2
          /\ TupleOf(notifications[k]) \in handled
          /\ Cardinality(RecordsFor(TupleOf(notifications[k]))) = 1

\* C2: the existence check and the write are atomic: of two interleaved
\* materializations of one idempotency key exactly one performs the write, so no
\* key is ever written twice.
C2_AtomicCheckThenWrite == \A k \in DOMAIN writes : writes[k] <= 1

\* C3: for every idempotency key the notification is published at most once.
C3_PublishAtMostOnce == \A k \in DOMAIN notifications : PubCountId(k) <= 1

\* C4: every published message follows the write of the record with the same id,
\* the id is the hash of "uid_appid_type_date" built from the message's own
\* fields, and the channel is the owner's notification channel.
C4_PublishAfterWrite ==
    \A m \in BagToSet(published) :
        /\ m[2].id \in DOMAIN notifications
        /\ TupleOf(notifications[m[2].id]) = TupleOf(m[2])
        /\ m[2].id = <<"md5", m[2].userId \o "_" \o m[2].metadata.application_id \o "_"
                               \o m[2].type \o "_" \o m[2].metadata.deadline_date>>
        /\ m[1] = "user." \o m[2].userId \o ".notifications"

\* a message has been published for a stored record
C4_Witness ==
    \E m \in BagToSet(published) : m[2].id \in DOMAIN notifications /\ writes[m[2].id] = 1

\* C5: for a well-formed target date the scanner emits an event if and only if
\* delta_days is negative or one of 0, 1, 3, 7.
C5_ThresholdTable ==
    scanned.parsed =>
        ((scanned.event # NoEvent) <=> (scanned.delta < 0 \/ scanned.delta \in {0, 1, 3, 7}))

NamedThreshold(days) ==
    CASE days < 0 -> "DEADLINE_MISSED"
      [] days = 0 -> "DEADLINE_TODAY"
      [] days = 1 -> "DEADLINE_1_DAY"
      [] days = 3 -> "DEADLINE_3_DAYS"
      [] days = 7 -> "DEADLINE_7_DAYS"
      [] OTHER -> None

C7_MissedOnceEver ==
    \A a \in AppIds :
        LET missed == {k \in DOMAIN notifications :
                          /\ notifications[k].type = "DEADLINE_MISSED"
                          /\ notifications[k].metadata.application_id = a}
            pubs == {m \in BagToSet(published) :
                          /\ m[2].type = "DEADLINE_MISSED"
                          /\ m[2].metadata.application_id = a}
            npubs == BagCardinality([m \in pubs |-> published[m]])
        IN  /\ Cardinality(missed) <= 1
            /\ npubs <= 1
            /\ \A k \in missed : writes[k] = 1
            /\ (\E t \in handled : t[2] = a /\ t[3] = "DEADLINE_MISSED") =>
                  Cardinality(missed) = 1 /\ npubs = 1

\* a run on a later day has met the DEADLINE_MISSED record of an earlier day
C7_Witness ==
    /\ Idle
    /\ today > FirstDay
    /\ scanned.event # NoEvent
    /\ \E k \in DOMAIN notifications :
          /\ notifications[k].type = "DEADLINE_MISSED"
          /\ notifications[k].metadata.application_id = scanned.app
          /\ notifications[k].metadata.days_left > scanned.delta
          /\ PubCountId(k) = 1

-----------------------------------------------------------------------------
(* Properties of the broker *)

\* the task is inside the  while self._running  loop of _listen
Looping(l) == lst[l].pc \notin {"none", "ready", "done"}

\* subscribe(channel, cb) has returned and unsubscribe has not been called for cb
Registered(cb) == call[cb].pc = "subscribed"

\* a listener loop polls the live pubsub object and every channel of the
\* registry is subscribed on it: a message published on any of them reaches
\* its callbacks
Delivering ==
    /\ up
    /\ conn.psub /\ ~conn.closed
    /\ RegChannels(subscribers) \subseteq conn.tch
    /\ \E l \in Listeners : lst[l].pc \in {"poll", "dispatch"} /\ lst[l].ref

\* C8: if the transport fails while channels are subscribed with live callbacks
\* and later becomes healthy again, then, however many reconnect attempts fail
\* before it recovers, the listener eventually polls again and every channel of
\* the registry is delivered again, without a new subscribe call.
C8_ReconnectRestoresDelivery == (~up /\ subscribers # <<>>) ~> Delivering

\* C9: under any interleaving of subscribe and unsubscribe calls, a callback
\* whose subscribe has returned and that was not unsubscribed is in the registry
\* under its channel, and the channel is subscribed at the transport.
C9_NoLostRegistration ==
    \A cb \in Callbacks :
        Registered(cb) =>
            /\ cb \in SeqToSet(CallbacksOf(subscribers, ChannelOf(cb)))
            /\ conn.psub
            /\ ChannelOf(cb) \in conn.tch

\* C10: at every moment at most one listener loop is active.
C10_SingleListener == Cardinality({l \in Listeners : Looping(l)}) <= 1

\* the state shutdown promises: no listener task alive and the flag cleared, no
\* client and no pubsub object, an empty registry
Stopped ==
    /\ ~running
    /\ \A l \in Listeners : ~Active(l)
    /\ ~conn.client /\ ~conn.psub
    /\ subscribers = <<>>

\* C11: when shutdown returns, whatever subscribe or unsubscribe calls
\* interleaved with it, the listener is stopped, the client and the pubsub
\* object are closed and the registry is empty.
C11_ShutdownPostcondition == [][(sd # "done" /\ sd' = "done") => Stopped']_vars

-----------------------------------------------------------------------------
(* Properties of the event bus *)

\* some handler task of emit call e ended with an exception
SomeFailed(e) == \E i \in DOMAIN emits[e].tasks : emits[e].tasks[i].st = "failed"

\* C12: when a handler raises, the exception does not reach the caller of emit,
\* every handler registered for the type is invoked (on this and on every
\* later emit), and once emit has returned every sibling that does not raise
\* itself has run to completion.
C12_HandlerFailureIsolated ==
    \A e \in Emits :
        /\ emits[e].pc # "raised"
        /\ emits[e].pc \in {"gather", "returned"} =>
              /\ Len(emits[e].tasks) = Len(emits[e].handlers)
              /\ \A i \in DOMAIN emits[e].tasks :
                    /\ emits[e].tasks[i].h = emits[e].handlers[i]
                    /\ emits[e].tasks[i].st # "pending"
        /\ (emits[e].pc = "returned" /\ SomeFailed(e)) =>
              \A i \in DOMAIN emits[e].tasks :
                  Outcomes(emits[e].tasks[i].h) = {"done"} => emits[e].tasks[i].st = "done"

\* two emits of one type have returned; in each a handler raised and a sibling
\* finished
C12_Witness ==
    /\ emits[1].type = emits[2].type
    /\ \A e \in {1, 2} :
          /\ emits[e].pc = "returned"
          /\ SomeFailed(e)
          /\ \E i \in DOMAIN emits[e].tasks : emits[e].tasks[i].st = "done"

\* C13: while emit waits, every registered handler has been started: none is
\* held back until another one finishes, so the effect of a fast handler is
\* there while a slow handler of the same emit call is still suspended.
C13_HandlersRunConcurrently ==
    \A e \in Emits :
        emits[e].pc = "gather" =>
            \A i \in DOMAIN emits[e].tasks : emits[e].tasks[i].st # "pending"

\* the effect of one handler is visible while slow_handler of the same emit
\* call is suspended at its await
C13_Witness ==
    \E e \in Emits :
        /\ emits[e].pc = "gather"
        /\ \E i, j \in DOMAIN emits[e].tasks :
              /\ <<e, i>> \in effects
              /\ emits[e].tasks[j].st = "suspended"

\* C14: an awaited emit has returned only if every handler task of it has
\* finished or failed.
C14_EmitWaitsForAll == \A e \in Emits : emits[e].pc = "returned" => Finished(emits[e].tasks)

\* emit has returned after a suspended handler finished
C14_Witness ==
    \E e \in Emits :
        /\ emits[e].pc = "returned"
        /\ Len(emits[e].tasks) > 1
        /\ \E i \in DOMAIN emits[e].tasks :
              emits[e].tasks[i].h = "slow_handler" /\ emits[e].tasks[i].st = "done"

\* C15: emit for an event type without registered handler returns without an
\* error, runs no handler and leaves the registry as it was.
C15_EmitWithoutHandlers ==
    [][\A e \in Emits :
          (emits[e].pc = "idle" /\ emits'[e].pc # "idle"
             /\ emits'[e].type \notin DOMAIN busSubscribers) =>
              /\ emits'[e].pc = "returned"
              /\ emits'[e].tasks = <<>>
              /\ busSubscribers' = busSubscribers
              /\ effects' = effects]_vars

\* emit("APPLICATION_UPDATED", ...) has returned and no handler is registered for it
C15_Witness ==
    \E e \in Emits :
        /\ emits[e].type = "APPLICATION_UPDATED"
        /\ emits[e].pc = "returned"
        /\ emits[e].tasks = <<>>
        /\ "APPLICATION_UPDATED" \notin DOMAIN busSubscribers

-----------------------------------------------------------------------------
(* Properties of the daily scan under errors *)

\* the application has no target date, or one that does not parse
BadDate(a) == TargetDateStr(apps[a]) = None \/ ~ParseOk(TargetDateStr(apps[a]))

\* C16: an application whose target date is missing or malformed produces no
\* event and no exception out of process_single_application; the scan goes on
\* and, when it ends, has processed every application of every user.
C16_BadDateSkipped ==
    /\ task.cause # "data"
    /\ \A i \in DOMAIN task.processed :
          /\ task.processed[i].app = ScanOrder[i]
          /\ BadDate(task.processed[i].app) =>
                ~task.processed[i].parsed /\ ~task.processed[i].emitted
    /\ task.status = "running" => Len(task.processed) = task.cursor - 1
    /\ task.status = "success" => Len(task.processed) = Len(ScanOrder)

\* the scan has ended normally; its first application had no usable date, its
\* second one produced an event
C16_Witness ==
    /\ task.status = "success"
    /\ BadDate(ScanOrder[1])
    /\ task.processed[2].emitted

\* C17: when the Firestore read or write of the handler fails, no record is
\* written and nothing is published by that handler run, emit returns normally
\* to its caller and the scan is where it was.
C17_PersistenceErrorDropsEvent ==
    [][\A p \in Procs :
          (pc[p] \in {"get", "set"} /\ ~firestore.up /\ pc'[p] # pc[p]) =>
              /\ pc'[p] = "idle"
              /\ notifications' = notifications
              /\ published' = published
              /\ emitResult'[p] = "returned"
              /\ task' = task]_vars

\* a handler run ended by a Firestore error left no record, and the scan it
\* belongs to ended normally
C17_Witness ==
    /\ task.status = "success"
    /\ \E d \in dropped : RecordsFor(d.tuple) = {} /\ PubCount(d.tuple) = 0

\* the daily scan has run on a later day than the failed write, ended normally
\* and lost no handler run itself
RetriedSince(d) ==
    /\ d.day < task.lastRun
    /\ task.status = "success"
    /\ \A x \in dropped : x.day # task.lastRun

\* C18: if the write of a notification fails, a later scan re-attempts it from
\* the application's current state: once a later scan has run with Firestore
\* healthy, the notification of that (owner, application, type, date) is stored.
C18_DroppedWriteRetried ==
    \A d \in dropped :
        (d.op = "set" /\ RetriedSince(d)) => RecordsFor(d.tuple) # {}

-----------------------------------------------------------------------------
(* Properties of the broker under transport failures *)

\* C19: a connection or timeout failure of the transport is never surfaced to
\* the caller of subscribe (or publish): no subscribe call ends by raising.
C19_TransportErrorNotSurfaced == \A cb \in Callbacks : call[cb].pc # "raised"

\* a listener task is between the loss of the connection and the end of its
\* reconnect attempt
ReconnectInProgress ==
    \E l \in Listeners : lst[l].pc \in {"backoff", "rc_close1", "rc_close2", "rc_ping", "rc_sub"}

\* a subscribe call for channel c is suspended
SubscribeInFlight(c) ==
    \E cb \in Callbacks : ChannelOf(cb) = c /\ call[cb].pc \in {"sub_ping", "sub_transport"}

\* C20: the transport subscription is opened when a channel gets its first
\* subscriber, so every channel of the registry is subscribed at the transport,
\* except while a reconnect or the subscribe call that adds it is in progress.
C20_RegistryChannelsSubscribed ==
    \A c \in RegChannels(subscribers) :
        (up /\ ~ReconnectInProgress /\ ~SubscribeInFlight(c)) =>
            conn.psub /\ c \in conn.tch

-----------------------------------------------------------------------------
(* Properties of unsubscribe and of the dispatch *)

\* callback cb is in the registry under its channel
InRegistry(cb) == cb \in SeqToSet(CallbacksOf(subscribers, ChannelOf(cb)))

\* C21: unsubscribe(channel, callback) removes that callback and leaves the
\* other callbacks of the channel and the other channels as they were; the
\* channel is unsubscribed at the transport only if its list has become empty.
C21_UnsubscribeFrame ==
    [][\A cb \in Callbacks :
          (call[cb].pc \in {"subscribed", "unsub_transport"} /\ call'[cb].pc = "done") =>
              /\ ~InRegistry(cb)'
              /\ \A o \in Callbacks \ {cb} : InRegistry(o) => InRegistry(o)'
              /\ \A c \in conn.tch \ conn'.tch :
                    c = ChannelOf(cb) /\ CallbacksOf(subscribers, c) = <<>>]_vars

\* subscribe, unsubscribe, the listener and shutdown on a healthy transport,
\* with callbacks on two channels
NextDispatch ==
    \/ \E cb \in Callbacks : SubscribeStep(cb)
    \/ \E cb \in Callbacks : UnsubscribeStep(cb)
    \/ \E l \in Listeners : ListenerStep(l)
    \/ ShutdownStep

SpecDispatch == BrokerStart /\ [][NextDispatch]_vars

\* the calls begun for the message in hand: each is a call of the callback at the
\* same place of the list taken at reception, of the channel of the message,
\* with the deserialized payload, or the raw one when it is not JSON
DispatchSound(l) ==
    LET t == lst[l]
    IN  t.pc = "dispatch" =>
          /\ IsJson(t.raw) => t.data = t.raw.json
          /\ ~IsJson(t.raw) => t.data = t.raw
          /\ Len(t.invoked) <= Len(t.regd)
          /\ \A i \in 1 .. Len(t.invoked) :
                /\ t.invoked[i].cb = t.regd[i]
                /\ t.invoked[i].arg = t.data
                /\ ChannelOf(t.invoked[i].cb) = t.cur
          /\ \A i, j \in 1 .. Len(t.invoked) : t.invoked[i].cb = t.invoked[j].cb => i = j

\* the list of a dispatch that begins is the registry entry of the channel
DispatchBegins(l) ==
    (lst[l].pc = "poll" /\ lst'[l].pc = "dispatch") =>
        /\ lst'[l].regd = CallbacksOf(subscribers, lst'[l].cur)
        /\ lst'[l].cur \in conn.tch

\* shutdown cancels the task of listener l in this step (lines 257-258)
Cancelled(l) == sd = "idle" /\ sd' = "wait" /\ listenerTask = l

\* the statement of C22 as written: every dispatch ends with all the callbacks
\* of the list invoked
C22_AsWritten ==
    /\ [](\A l \in Listeners : DispatchSound(l))
    /\ [][\A l \in Listeners :
            /\ DispatchBegins(l)
            /\ (lst[l].pc = "dispatch" /\ lst'[l].pc # "dispatch") =>
                   Len(lst[l].invoked) = Len(lst[l].regd)]_vars

\* C22: a message received on channel c is passed, deserialized (raw when it is
\* not JSON), once to each callback registered for c at reception and to no
\* callback of another channel, unless shutdown cancels the listener during the
\* dispatch, which skips the callbacks not yet called
C22_DispatchToChannelCallbacks ==
    /\ [](\A l \in Listeners : DispatchSound(l))
    /\ [][\A l \in Listeners :
            /\ DispatchBegins(l)
            /\ (lst[l].pc = "dispatch" /\ lst'[l].pc # "dispatch" /\ ~Cancelled(l)) =>
                   Len(lst[l].invoked) = Len(lst[l].regd)]_vars

\* a text that is not JSON has reached both callbacks of one channel while a
\* callback of another channel is registered
C22_Witness ==
    \E l \in Listeners :
        /\ lst[l].pc = "dispatch"
        /\ ~IsJson(lst[l].raw)
        /\ Len(lst[l].invoked) = 2
        /\ Len(lst[l].regd) = 2
        /\ \E cb \in Callbacks : InRegistry(cb) /\ ChannelOf(cb) # lst[l].cur

\* the call  callback(data)  that listener l awaits ends in this step
CallbackEnds(l) == lst[l].pc = "dispatch" /\ lst'[l].todo # lst[l].todo /\ ~Cancelled(l)

\* C23: when a callback ends, by returning or by raising, the listener calls the
\* next callback of the list with the same payload, and after the last one it
\* goes back to polling unless it has been told to stop; a callback that raised
\* leaves the listener in the dispatch of the same message
C23_CallbackFailureIsolated ==
    [][\A l \in Listeners :
          /\ CallbackEnds(l) =>
                IF Len(lst[l].todo) > 1
                THEN /\ lst'[l].pc = "dispatch"
                     /\ lst'[l].todo = Tail(lst[l].todo)
                     /\ lst'[l].data = lst[l].data
                     /\ lst'[l].invoked =
                            Append(lst[l].invoked, [cb |-> lst[l].todo[2], arg |-> lst[l].data])
                ELSE /\ (running /\ conn.psub) => lst'[l].pc = "poll"
                     /\ lst'[l].pc \in {"poll", "done", "sleep5"}
                     /\ lst'[l].pc = "sleep5" => ~conn.psub
                     /\ lst'[l].pc = "done" => ~running
          /\ (lst[l].pc = "dispatch" /\ lst'[l].errs # lst[l].errs /\ lst'[l].errs # {}) =>
                /\ lst'[l].pc = "dispatch"
                /\ lst'[l].cur = lst[l].cur]_vars

\* the first callback of a channel raised and the second one is being called
\* with the message
C23_Witness ==
    \E l \in Listeners :
        /\ lst[l].pc = "dispatch"
        /\ lst[l].errs = {lst[l].regd[1]}
        /\ Len(lst[l].invoked) = 2
        /\ lst[l].invoked[2].arg = lst[l].data

(* services/application_svc.py : mark_notification_read *)

\* the users who can ask for a notification to be marked
Readers == {"u1", "u2"}

\* mark_notification_read(uid, notification_id) (lines 264-286): the document is
\* updated when it exists and belongs to uid
MarkRead(uid, k) ==
    /\ DocExists(notifications, k)
    /\ notifications[k].userId = uid
    /\ notifications' = [notifications EXCEPT ![k].isRead = TRUE]
    /\ UNCHANGED <<today, apps, pc, job, scanned, published, writes, handled, task, firestore,
                   emitResult, dropped>>
    /\ UNCHANGED <<brokerVars, busVars, gwVars, fnVars>>

\* the scans and handlers of the two processes and the users reading their
\* notifications
NextRead ==
    \/ Next
    \/ \E uid \in Readers, k \in DOMAIN notifications : MarkRead(uid, k)

SpecRead == Init /\ [][NextRead]_vars

\* C24: a stored notification is never deleted and never changes, except that
\* its isRead goes from false to true
C24_RecordFrame ==
    [][\A k \in DOMAIN notifications :
          /\ k \in DOMAIN notifications'
          /\ \/ notifications'[k] = notifications[k]
             \/ /\ ~notifications[k].isRead
                /\ notifications'[k] = [notifications[k] EXCEPT !.isRead = TRUE]]_vars

\* the materializations in progress
Jobs == {job[p] : p \in {q \in Procs : job[q] # NoJob}}

\* C25: the id is a function of (user id, application id, type, deadline date)
\* alone: materializations of one four-tuple, in whatever process, on whatever day
\* and with whatever days_left, carry one id, which is also the id of the stored
\* record and of the published messages of that four-tuple
C25_IdFunctionOfTuple ==
    /\ \A j1, j2 \in Jobs : JobTuple(j1) = JobTuple(j2) => j1.id = j2.id
    /\ \A j \in Jobs : \A k \in DOMAIN notifications :
          TupleOf(notifications[k]) = JobTuple(j) => k = j.id
    /\ \A j \in Jobs : \A m \in BagToSet(published) :
          TupleOf(m[2]) = JobTuple(j) => m[2].id = j.id

\* two processes materialize one four-tuple with different days_left, after the
\* record of that four-tuple was stored
C25_Witness ==
    /\ job["worker"] # NoJob
    /\ job["api"] # NoJob
    /\ JobTuple(job["worker"]) = JobTuple(job["api"])
    /\ job["worker"].payload.days_left # job["api"].payload.days_left
    /\ job["worker"].id = job["api"].id
    /\ job["api"].id \in DOMAIN notifications

(* The notification handler, subscribe and the listener together *)

\* application documents of two users whose deadlines both call for a notification
FanoutInit ==
    /\ PipeInit
    /\ apps["a1"].apply_date = IsoFormat(FirstDay + 1)
    /\ apps["a2"].deadline = IsoFormat(FirstDay) \o "T23:59:59Z"

FanoutStart == FanoutInit /\ BrokerInit /\ BusInit /\ GatewayInit /\ NoCalls

NextFanout ==
    \/ \E a \in AppIds : Scan("worker", a)
    \/ HandlerGet("worker")
    \/ HandlerSet("worker")
    \/ HandlerPublish("worker")
    \/ \E cb \in Callbacks : SubscribeStep(cb)
    \/ \E l \in Listeners : ListenerStart(l) \/ PollDone(l) \/ DispatchDone(l)

SpecFanout == FanoutStart /\ [][NextFanout]_vars

\* the payload is a notification
IsNotification(data) == "userId" \in DOMAIN data

\* C26: a notification of user u is published on user.<u>.notifications only,
\* and the listener passes it only to callbacks subscribed for u, so a callback
\* subscribed for another user is never called with it
C26_OwnerChannelOnly ==
    /\ \A m \in BagToSet(published) :
          m[1] = "user." \o m[2].userId \o ".notifications"
    /\ \A l \in Listeners :
          (lst[l].pc = "dispatch" /\ IsNotification(lst[l].data)) =>
              /\ lst[l].cur = "user." \o lst[l].data.userId \o ".notifications"
              /\ \A i \in 1 .. Len(lst[l].invoked) :
                    /\ IsNotification(lst[l].invoked[i].arg)
                    /\ UserOf(lst[l].invoked[i].cb) = lst[l].invoked[i].arg.userId

\* notifications of both users are published, callbacks of both users are
\* registered, and the listener is passing a notification of u1 to the second
\* callback of u1
C26_Witness ==
    /\ \E m \in BagToSet(published) : m[2].userId = "u1"
    /\ \E m \in BagToSet(published) : m[2].userId = "u2"
    /\ InRegistry("cb3")
    /\ \E l \in Listeners :
          /\ lst[l].pc = "dispatch"
          /\ IsNotification(lst[l].data)
          /\ lst[l].data.userId = "u1"
          /\ Len(lst[l].invoked) = 2

(* routes/realtime.py : websocket_updates *)

\* the WebSocket clients
Clients == {"w1", "w2"}

\* lambda msg: forward_to_websocket(msg)  of the connection of client w
ForwardCallback(w) == IF w = "w1" THEN "fw1" ELSE "fw2"

\* the channel in the path of the connection of client w
RequestedChannel(w) == channel_user_notifications(IF w = "w1" THEN "u1" ELSE "u2")

\* pubsub.subscribe(channel, callback) called without await (line 40): the call
\* of an  async def  builds a coroutine object, which is dropped; its body never
\* runs
Subscribe_NotAwaited(reg, c, cb) == reg

\* websocket_updates up to  await websocket.receive_text()  (lines 26-44)
Connect(w) ==
    /\ w \notin active_connections
    /\ active_connections' = active_connections \cup {w}
    /\ subscribers' = Subscribe_NotAwaited(subscribers, RequestedChannel(w), ForwardCallback(w))
    /\ UNCHANGED <<up, failures, stops, running, conn, listenerTask, lst, call, sd>>
    /\ UNCHANGED <<pipeVars, busVars, fnVars>>

\* receive_text raises WebSocketDisconnect or another exception (lines 47-53)
Disconnect(w) ==
    /\ w \in active_connections
    /\ active_connections' = active_connections \ {w}
    /\ UNCHANGED <<pipeVars, brokerVars, busVars, fnVars>>

\* clients connecting and disconnecting while other components use the broker
NextGateway ==
    \/ \E w \in Clients : Connect(w)
    \/ \E w \in Clients : Disconnect(w)
    \/ NextSubs

SpecGateway == BrokerStart /\ [][NextGateway]_vars

\* the registry holds the forward callback of client w under the channel it asked for
GatewayRegistered(w) ==
    ForwardCallback(w) \in SeqToSet(CallbacksOf(subscribers, RequestedChannel(w)))

\* C27: the registry holds the forward callback of a client exactly while the
\* client is connected
C27_RegistryTracksClients ==
    \A w \in Clients : GatewayRegistered(w) <=> w \in active_connections

(* services/tasks.py : receive_to_n8n *)

\* largest number of keys of a response
MaxFields == 3

\* keys of a response of send_to_n8n or of the n8n workflow
Keys == {"status", "message", "output", "text", "reply", "sessionId"}

\* values of a response: strings [s |-> ...] and numbers [n |-> ...]
Values == {[s |-> "error"], [s |-> "hi"], [n |-> 7]}

\* a dict: its items in insertion order, no key twice
IsDict(d) == \A i, j \in 1 .. Len(d) : d[i].key = d[j].key => i = j

Dicts ==
    {d \in UNION {[1 .. n -> [key : Keys, value : Values]] : n \in 0 .. MaxFields} : IsDict(d)}

\* key in data
DictHas(d, k) == \E i \in 1 .. Len(d) : d[i].key = k

\* data[key]
DictGet(d, k) == d[CHOOSE i \in 1 .. Len(d) : d[i].key = k].value

\* data.get(key, default)
DictGetOr(d, k, default) == IF DictHas(d, k) THEN DictGet(d, k) ELSE default

\* str(value)
Str(v) == IF "s" \in DOMAIN v THEN v ELSE [s |-> ToString(v.n)]

\* json_extract_reply that looks for "text" before "output"
json_extract_reply_TextFirst(data) ==
    IF Len(data) > 0
    THEN IF DictHas(data, "text") THEN Str(DictGet(data, "text"))
         ELSE IF DictHas(data, "output") THEN Str(DictGet(data, "output"))
         ELSE IF DictHas(data, "reply") THEN Str(DictGet(data, "reply"))
         ELSE Str(data[1].value)
    ELSE [s |-> "{}"]

\* json_extract_reply (lines 461-471); str(data) of the empty dict is "{}"
json_extract_reply(data) ==
    IF Len(data) > 0
    THEN IF DictHas(data, "output") THEN Str(DictGet(data, "output"))
         ELSE IF DictHas(data, "text") THEN Str(DictGet(data, "text"))
         ELSE IF DictHas(data, "reply") THEN Str(DictGet(data, "reply"))
         ELSE Str(data[1].value)
    ELSE [s |-> "{}"]

\* receive_to_n8n (lines 473-487)
receive_to_n8n(response) ==
    LET status == DictGetOr(response, "status", [s |-> "success"])
    IN  IF status = [s |-> "error"]
        THEN [reply |-> DictGetOr(response, "message", [s |-> "Unknown error"]),
              status |-> [s |-> "error"],
              celery |-> TRUE]
        ELSE [reply |-> json_extract_reply(response),
              status |-> status,
              celery |-> TRUE]

\* the task receive_to_n8n runs on the result of send_to_n8n
ReceiveToN8n ==
    /\ chat_result = NoResult
    /\ chat_result' = receive_to_n8n(n8n_response)
    /\ UNCHANGED <<n8n_response, id_args, ids, marking>>
    /\ UNCHANGED <<pipeVars, brokerVars, busVars, gwVars>>

\* a call of receive_to_n8n on any response
ChatStart ==
    /\ QuietPipeInit /\ BrokerInit /\ BusInit /\ GatewayInit
    /\ n8n_response \in Dicts
    /\ chat_result = NoResult
    /\ id_args = <<>>
    /\ ids = NoResult
    /\ marking = NoMarking

NextChat == ReceiveToN8n

SpecChat == ChatStart /\ [][NextChat]_vars

\* the upstream result says "error"
IsError(response) == DictHas(response, "status") /\ DictGet(response, "status") = [s |-> "error"]

\* an error result is passed on with its message
ErrorMapped ==
    IsError(n8n_response) =>
        /\ chat_result.status = [s |-> "error"]
        /\ DictHas(n8n_response, "message") => chat_result.reply = DictGet(n8n_response, "message")

\* the reply comes from the first of output, text, reply that the response has
ReplyFromField ==
    /\ DictHas(n8n_response, "output") => chat_result.reply = Str(DictGet(n8n_response, "output"))
    /\ (~DictHas(n8n_response, "output") /\ DictHas(n8n_response, "text")) =>
           chat_result.reply = Str(DictGet(n8n_response, "text"))
    /\ (~DictHas(n8n_response, "output") /\ ~DictHas(n8n_response, "text")
          /\ DictHas(n8n_response, "reply")) =>
           chat_result.reply = Str(DictGet(n8n_response, "reply"))

\* the statement of C28 as written: every result that is not an error has its
\* reply from output, text or reply
C28_AsWritten ==
    chat_result # NoResult =>
        /\ ErrorMapped
        /\ ~IsError(n8n_response) =>
              /\ chat_result.celery
              /\ ReplyFromField
              /\ \E k \in {"output", "text", "reply"} : DictHas(n8n_response, k)

\* C28: an upstream result with status "error" gives status "error" and the
\* upstream message as reply ("Unknown error" without one); any other response
\* gives celery = true, the status of the response ("success" without one) and
\* as reply the text of its output, else text, else reply field, else of its
\* first value, else "{}" for an empty response
C28_ReceiveMapping ==
    chat_result # NoResult =>
        /\ ErrorMapped
        /\ (IsError(n8n_response) /\ ~DictHas(n8n_response, "message")) =>
              chat_result.reply = [s |-> "Unknown error"]
        /\ ~IsError(n8n_response) =>
              /\ chat_result.celery
              /\ chat_result.status = DictGetOr(n8n_response, "status", [s |-> "success"])
              /\ ReplyFromField
              /\ (\A k \in {"output", "text", "reply"} : ~DictHas(n8n_response, k)) =>
                    chat_result.reply =
                        IF Len(n8n_response) > 0 THEN Str(n8n_response[1].value) ELSE [s |-> "{}"]

\* a response with text and output, in that order, and a number as output has
\* been mapped
C28_Witness ==
    /\ chat_result # NoResult
    /\ ~IsError(n8n_response)
    /\ Len(n8n_response) >= 2
    /\ n8n_response[1].key = "text"
    /\ n8n_response[2].key = "output"
    /\ n8n_response[2].value = [n |-> 7]
    /\ chat_result.reply = [s |-> "7"]

\* ChatResponse(**result) (dtos/chat_dtos.py): sessionId is None unless given
ChatResponse(result) ==
    [reply |-> result.reply, status |-> result.status, celery |-> result.celery,
     sessionId |-> IF "sessionId" \in DOMAIN result THEN result.sessionId ELSE [none |-> TRUE]]

\* C29: the result of receive_to_n8n, and the ChatResponse built from it, carry
\* the sessionId of the response
C29_SessionIdCarried ==
    (chat_result # NoResult /\ DictHas(n8n_response, "sessionId")) =>
        /\ "sessionId" \in DOMAIN chat_result
        /\ chat_result.sessionId = DictGet(n8n_response, "sessionId")
        /\ ChatResponse(chat_result).sessionId = DictGet(n8n_response, "sessionId")

(* services/application_svc.py : generate_idempotent_id as a function of strings *)

\* document ids of users and of applications: any non-empty strings without "/"
IdUsers == {"u1", "u1_x"}

IdApps == {"a1", "x_a1"}

\* the types of get_notification_config
IdTypes == {"DEADLINE_TODAY", "DEADLINE_1_DAY", "DEADLINE_3_DAYS", "DEADLINE_7_DAYS",
            "DEADLINE_MISSED"}

IdDates == {IsoFormat(FirstDay), IsoFormat(FirstDay + 1)}

IdTuples == IdUsers \X IdApps \X IdTypes \X IdDates

\* two calls of generate_idempotent_id
IdStart ==
    /\ QuietPipeInit /\ BrokerInit /\ BusInit /\ GatewayInit
    /\ n8n_response = <<>>
    /\ chat_result = NoResult
    /\ id_args \in IdTuples \X IdTuples
    /\ ids = NoResult
    /\ marking = NoMarking

GenerateIds ==
    /\ ids = NoResult
    /\ ids' = [i \in {1, 2} |->
                 generate_idempotent_id(id_args[i][1], id_args[i][2], id_args[i][3],
                                        id_args[i][4])]
    /\ UNCHANGED <<n8n_response, chat_result, id_args, marking>>
    /\ UNCHANGED <<pipeVars, brokerVars, busVars, gwVars>>

NextId == GenerateIds

SpecId == IdStart /\ [][NextId]_vars

\* C30: two different four-tuples give different hashed strings, hence
\* different ids
C30_EncodingInjective ==
    (ids # NoResult /\ id_args[1] # id_args[2]) =>
        /\ ids[1][2] # ids[2][2]
        /\ ids[1] # ids[2]

(* Properties of the scanner, the listener loop and the broker, continued *)

\* C31: the scan never waits for a handler: while the task has subjects left,
\* its next iteration can run whatever the handlers of the events already
\* emitted are doing
C31_ScanDoesNotWait ==
    (task.status = "running" /\ task.cursor <= Len(ScanOrder)) => ENABLED TaskStep

\* subscribe calls for two channels, the listener, shutdown, stop_listening and
\* outages of the transport
NextBroker ==
    \/ \E cb \in {"cb1", "cb3"} : SubscribeStep(cb)
    \/ \E l \in Listeners : ListenerStep(l)
    \/ ShutdownStep
    \/ StopListening
    \/ TransportFail
    \/ TransportRecover

SpecBroker == BrokerStart /\ [][NextBroker]_vars

\* the state of a listener loop: STOPPED before it runs and after it has
\* returned, RECONNECTING from the backoff sleep to the end of the reconnect
\* block (lines 199-223), RUNNING otherwise
LoopState(t) ==
    IF t.pc \in {"none", "ready", "done"} THEN "STOPPED"
    ELSE IF t.pc \in {"backoff", "rc_close1", "rc_close2", "rc_ping", "rc_sub"} THEN "RECONNECTING"
    ELSE "RUNNING"

\* C32: a listener loop goes from STOPPED to RUNNING only, enters RECONNECTING
\* only from a poll that raises a connection error, and after any other error
\* sleeps the fixed delay in state RUNNING and then polls again or stops
C32_LoopTransitions ==
    [][\A l \in Listeners :
          LET s == LoopState(lst[l])
              n == LoopState(lst'[l])
          IN  /\ (s = "STOPPED" /\ n # "STOPPED") => n = "RUNNING"
              /\ (s # "RECONNECTING" /\ n = "RECONNECTING") =>
                    /\ s = "RUNNING"
                    /\ lst[l].pc = "poll"
                    /\ ~up \/ ~lst[l].ref
                    /\ lst'[l].pc = "backoff"
              /\ (lst[l].pc = "sleep5" /\ lst'[l].pc # "sleep5") =>
                    lst'[l].pc \in {"poll", "done"}
              /\ (lst[l].pc = "sleep5" /\ lst'[l].pc = "done") => ~running']_vars

\* after an outage and a reconnect attempt a loop is in the fixed delay of an
\* error that is not a connection error
C32_Witness ==
    \E l \in Listeners :
        /\ lst[l].pc = "sleep5"
        /\ lst[l].attempts > 0
        /\ failures > 0

\* C33: the steps of a reconnect leave the registry as it is, and when a
\* reconnect ends on a healthy transport and the loop is RUNNING again, the live
\* subscription covers every channel the registry holds at that moment, but for
\* a channel whose subscribe call is still suspended
C33_ReconnectResubscribesAll ==
    [][\A l \in Listeners :
          LoopState(lst[l]) = "RECONNECTING" =>
              /\ lst'[l] # lst[l] => subscribers' = subscribers
              /\ (LoopState(lst'[l]) = "RUNNING" /\ up) =>
                    /\ conn'.psub /\ ~conn'.closed
                    /\ \A c \in RegChannels(subscribers') :
                          ~SubscribeInFlight(c)' => c \in conn'.tch]_vars

\* one subscriber and a transport that fails again and again: the reconnect of
\* the listener fails in its re-subscribe loop and is attempted again
NextBackoff ==
    \/ failures = 0 /\ SubscribeStep("cb1")
    \/ \E l \in Listeners : ListenerStep(l)
    \/ TransportFailAgain
    \/ TransportRecover

SpecBackoff == BrokerStart /\ [][NextBackoff]_vars

\* the delays 1, 2, 4, ... capped at 60
DelaySchedule == <<1, 2, 4, 8, 16, 32, 60, 60, 60, 60>>

\* the step completes a reconnect: the loop polls a new subscription that
\* covers the registry
ReconnectSucceeds(l) ==
    /\ lst[l].pc \in {"rc_ping", "rc_sub"}
    /\ lst'[l].pc = "poll"
    /\ up
    /\ conn'.psub /\ ~conn'.closed
    /\ RegChannels(subscribers') \subseteq conn'.tch

\* C34: the sleep before the k-th consecutive reconnect attempt lasts
\* min(2^(k-1), 60) seconds (1, 2, 4, ..., 60, 60), k being one more than at the
\* previous attempt, an attempt that fails leaves the count as it is, and the
\* count is back at its initial value 0 when a reconnect succeeds.
C34_BackoffSchedule ==
    [][\A l \in Listeners :
          /\ (lst[l].pc # "backoff" /\ lst'[l].pc = "backoff") =>
                /\ lst'[l].attempts = lst[l].attempts + 1
                /\ lst'[l].backoff = DelaySchedule[lst'[l].attempts]
          /\ (lst[l].pc = "backoff" /\ Active(l)') =>
                /\ lst'[l].attempts = lst[l].attempts
                /\ lst'[l].backoff = lst[l].backoff
          /\ (LoopState(lst[l]) = "RECONNECTING" /\ LoopState(lst'[l]) = "RUNNING"
                /\ ~ReconnectSucceeds(l)) => lst'[l].attempts = lst[l].attempts
          /\ ReconnectSucceeds(l) => lst'[l].attempts = 0]_vars

C34_Witness ==
    \E l \in Listeners :
        lst[l].pc = "backoff" /\ lst[l].attempts = 8 /\ lst[l].backoff = 60

\* an unsubscribe call for channel c is suspended
UnsubscribeInFlight(c) ==
    \E cb \in Callbacks : ChannelOf(cb) = c /\ call[cb].pc = "unsub_transport"

\* C35: every channel present in the registry has at least one callback, also
\* after a transport subscribe call has failed; only a channel whose subscribe or
\* unsubscribe call is still suspended may have none.
C35_NoEmptyRegistryEntry ==
    \A i \in 1 .. Len(subscribers) :
        subscribers[i].callbacks = <<>> =>
            SubscribeInFlight(subscribers[i].channel) \/ UnsubscribeInFlight(subscribers[i].channel)

\* listener l takes a step of its own (a close by another task only marks its
\* reference stale)
ListenerMoved(l) == [lst[l] EXCEPT !.ref = FALSE] # [lst'[l] EXCEPT !.ref = FALSE]

\* shutdown has been called and has not returned
ShuttingDown == sd \in {"wait", "close1", "close2"}

\* C36: once shutdown has been called, a listener loop that is waiting in a
\* poll, running a callback, sleeping or rebuilding the connection stops at its
\* next suspension point: the step that resumes it ends the loop.
C36_LoopStopsAtNextSuspension ==
    [][\A l \in Listeners :
          (ShuttingDown /\ Looping(l) /\ ListenerMoved(l)) => ~Looping(l)']_vars

-----------------------------------------------------------------------------
(* handle_deadline_approaching on any payload an emitter can pass *)

\* values of days_left: integers, floats given in halves (3 stands for 1.5),
\* strings, and None
DaysLeftValues ==
    {[int |-> n] : n \in -2 .. MaxDaysLeft}
        \cup {[halves |-> h] : h \in {-3, -1, 5, 7}}
        \cup {[text |-> s] : s \in {"7", "soon"}}
        \cup {NoPayload}

\* the strings int() parses, with their values
DecimalTexts == [s \in {"7"} |-> 7]

\* int(x) of Python: an int is itself, a float is truncated toward zero, a
\* string is parsed as a decimal integer literal or raises ValueError, None raises
\* TypeError
IntOf(x) ==
    IF "int" \in DOMAIN x THEN [ok |-> TRUE, v |-> x.int]
    ELSE IF "halves" \in DOMAIN x
    THEN [ok |-> TRUE, v |-> IF x.halves >= 0 THEN x.halves \div 2 ELSE 0 - ((0 - x.halves) \div 2)]
    ELSE IF "text" \in DOMAIN x /\ x.text \in DOMAIN DecimalTexts
    THEN [ok |-> TRUE, v |-> DecimalTexts[x.text]]
    ELSE [ok |-> FALSE, v |-> 0]

\* handle_deadline_approaching (lines 68-99): days = int(payload.get('days_left'))
\* or return, then the notification of that number of days; the stored metadata
\* is the payload as received
HandlerEntry(payload) ==
    LET r == IntOf(payload.days_left)
        j == HandlerPrepare([payload EXCEPT !.days_left = r.v])
    IN  IF ~r.ok THEN NoJob
        ELSE IF j = NoJob THEN NoJob
        ELSE [j EXCEPT !.payload = payload]

\* an emitter passes a payload with days_left = d to event_bus.emit in process p,
\* and the handler runs up to its first Firestore round trip
Deliver(p, d) ==
    /\ pc[p] = "idle"
    /\ LET payload == [user_id |-> "u1", application_id |-> "a1",
                       scholarship_name |-> "Fulbright", days_left |-> d,
                       deadline_date |-> IsoFormat(FirstDay + 3)]
           j == HandlerEntry(payload)
       IN  /\ job' = [job EXCEPT ![p] = j]
           /\ pc' = [pc EXCEPT ![p] = IF j = NoJob THEN "idle" ELSE "get"]
           /\ emitResult' = [emitResult EXCEPT ![p] =
                               IF j = NoJob THEN EmitOutcome("done") ELSE "gather"]
    /\ UNCHANGED <<today, apps, scanned, notifications, published, writes, handled>>
    /\ UNCHANGED <<task, firestore, dropped>>
    /\ UNCHANGED <<brokerVars, busVars, gwVars, fnVars>>

NextHandler ==
    \/ \E d \in DaysLeftValues : Deliver("worker", d)
    \/ HandlerGet("worker")
    \/ HandlerSet("worker")
    \/ HandlerPublish("worker")

SpecHandler == BrokerStart /\ [][NextHandler]_vars

\* days_left is an integer, as a number or written out in a string
IsInteger(d) == "int" \in DOMAIN d \/ ("text" \in DOMAIN d /\ d.text \in DOMAIN DecimalTexts)

IntegerOf(d) == IF "int" \in DOMAIN d THEN d.int ELSE DecimalTexts[d.text]

\* days_left is a negative number, integer or not
IsNegative(d) ==
    \/ IsInteger(d) /\ IntegerOf(d) < 0
    \/ "halves" \in DOMAIN d /\ d.halves < 0

\* the type the rule table assigns to a value of days_left, "none" for a value
\* without a rule
RuleType(d) ==
    IF IsNegative(d) THEN "DEADLINE_MISSED"
    ELSE IF ~IsInteger(d) THEN "none"
    ELSE IF IntegerOf(d) = 0 THEN "DEADLINE_TODAY"
    ELSE IF IntegerOf(d) = 1 THEN "DEADLINE_1_DAY"
    ELSE IF IntegerOf(d) = 3 THEN "DEADLINE_3_DAYS"
    ELSE IF IntegerOf(d) = 7 THEN "DEADLINE_7_DAYS"
    ELSE "none"

\* a notification of the right type for the days_left it was made from
Ruled(n) ==
    /\ RuleType(n.metadata.days_left) # "none"
    /\ n.type = RuleType(n.metadata.days_left)

C38_PollHasConnection ==
    [][\A l \in Listeners :
          ListenerMoved(l) =>
              /\ lst'[l].pc # "sleep5"
              /\ lst'[l].pc = "poll" => conn'.client /\ conn'.psub /\ ~conn'.closed]_vars

\* the step begins a call  callback(data)  in listener l
CallBegins(l) == lst'[l].invoked # <<>> /\ lst'[l].invoked # lst[l].invoked

\* the callback of the call that begins
CalledBack(l) == lst'[l].invoked[Len(lst'[l].invoked)].cb

\* C39: no call of a callback begins after the unsubscribe call that removed the
\* callback has returned, and none after shutdown has returned (unless the
\* callback was registered again since), also when the unsubscribe or the
\* shutdown runs during the dispatch of a message.
C39_NoCallAfterRemoval ==
    [][\A l \in Listeners :
          CallBegins(l) =>
              /\ call[CalledBack(l)].pc # "done"
              /\ sd = "done" => InRegistry(CalledBack(l))]_vars

-----------------------------------------------------------------------------
(* services/application_svc.py : mark_notification_read, called by the route
   PUT /{uid}/notifications/{id}/read *)

\* the id of a document that was never written
MissingId == <<"md5", "missing">>

\* an ownership test that lets every user pass
Owns_Anyone(data, uid) == TRUE

\* data.get('userId') != uid  (line 277), negated
Owns(data, uid) == data.userId = uid

\* mark_notification_read(uid, notification_id) up to its second Firestore round
\* trip (lines 268-279): doc = ref.get(), the existence and ownership tests;
\* an error of the round trip is caught at 284-286
MarkReadGet(uid, k) ==
    /\ marking.pc = "idle"
    /\ marking' =
          IF ~firestore.up THEN [pc |-> "idle", uid |-> uid, id |-> k, result |-> "false"]
          ELSE IF ~DocExists(notifications, k)
          THEN [pc |-> "idle", uid |-> uid, id |-> k, result |-> "false"]
          ELSE IF ~Owns(notifications[k], uid)
          THEN [pc |-> "idle", uid |-> uid, id |-> k, result |-> "false"]
          ELSE [pc |-> "update", uid |-> uid, id |-> k, result |-> "none"]
    /\ UNCHANGED <<n8n_response, chat_result, id_args, ids>>
    /\ UNCHANGED <<pipeVars, brokerVars, busVars, gwVars>>

\* ref.update({'isRead': True}); return True  (lines 281-282); update raises for a
\* document that does not exist, and the error is caught at 284-286
MarkReadUpdate ==
    /\ marking.pc = "update"
    /\ IF ~firestore.up \/ ~DocExists(notifications, marking.id)
       THEN /\ marking' = [marking EXCEPT !.pc = "idle", !.result = "false"]
            /\ notifications' = notifications
       ELSE /\ marking' = [marking EXCEPT !.pc = "idle", !.result = "true"]
            /\ notifications' = [notifications EXCEPT ![marking.id].isRead = TRUE]
    /\ UNCHANGED <<today, apps, pc, job, scanned, published, writes, handled, task, firestore,
                   emitResult, dropped>>
    /\ UNCHANGED <<n8n_response, chat_result, id_args, ids>>
    /\ UNCHANGED <<brokerVars, busVars, gwVars>>

\* the values of days_left delivered while users mark notifications read
MarkedDays == {[int |-> 0], [int |-> 2], [int |-> 3]}

\* the handler stores notifications of user u1 while the users u1 and u2 mark
\* notifications read, stored ones and one that does not exist
NextMarkRead ==
    \/ \E d \in MarkedDays : Deliver("worker", d)
    \/ HandlerGet("worker")
    \/ HandlerSet("worker")
    \/ HandlerPublish("worker")
    \/ \E uid \in Readers, k \in DOMAIN notifications \cup {MissingId} : MarkReadGet(uid, k)
    \/ MarkReadUpdate

SpecMarkRead == BrokerStart /\ [][NextMarkRead]_vars

\* the step ends a call of mark_notification_read
MarkReadReturns == marking' # marking /\ marking'.pc = "idle"

\* C40: mark_notification_read(uid, id) sets isRead and returns true only for a
\* notification that exists and whose owner is uid; for a missing notification
\* or one of another user it returns false, and a call that returns false leaves
\* every notification unchanged.
C40_MarkReadGuarded ==
    [][MarkReadReturns =>
          LET uid == marking'.uid
              k == marking'.id
          IN  /\ marking'.result \in {"true", "false"}
              /\ marking'.result = "true" =>
                    /\ k \in DOMAIN notifications
                    /\ notifications[k].userId = uid
                    /\ notifications' = [notifications EXCEPT ![k].isRead = TRUE]
              /\ (k \notin DOMAIN notifications \/ notifications[k].userId # uid) =>
                    marking'.result = "false"
              /\ marking'.result = "false" => notifications' = notifications]_vars

\* a call for a notification of another user has returned false, after the owner
\* marked one read
C40_Witness ==
    /\ marking.pc = "idle" /\ marking.result = "false"
    /\ marking.id \in DOMAIN notifications
    /\ notifications[marking.id].userId # marking.uid
    /\ \E k \in DOMAIN notifications : notifications[k].isRead

=============================================================================
